---- MODULE Spec2Model ----
(***************************************************************************)
(* A model of mockldap: the call recorder / seed registry of               *)
(* src/mockldap/recording.py, the simulated client of                      *)
(* src/mockldap/ldapobject.py and the registry of clients of               *)
(* src/mockldap/__init__.py.                                               *)
(*                                                                         *)
(* Python strings are sequences of one-character strings, so that the      *)
(* string processing of the code (count, split, slices, endswith, lower)   *)
(* is computed as the code computes it.  Every Python value that crosses   *)
(* the recorder (an argument, a seed value, a return value) is a record    *)
(* tagged with its type in the field t.  A mutable object the caller keeps *)
(* a reference to is a cell of the heap, and Ref(a) is the reference.      *)
(***************************************************************************)
EXTENDS Integers, Sequences, FiniteSets, TLC

VARIABLES obj,      \* the LDAPObject: its fields, its call log and its seeds;
                    \* in SpecRegistry the MockLdap
          heap,     \* the list objects shared between caller and program, and
                    \* the clients of a MockLdap
          held,     \* the heap cells the caller holds a reference to
          passlib,  \* whether "from passlib.hash import ldap_md5_crypt" succeeded
          last,     \* the most recent invocation and what the caller got from it
          seeded,   \* the seeds the caller registered, oldest first, as they were then
          invoked,  \* the invocations the caller made, oldest first
          trace,    \* for each invocation, the directory and the names of the
                    \* calls before it, and what it gave
          expected_bound  \* the identity the caller expects the client to be bound as

vars == <<obj, heap, held, passlib, last, seeded, invoked, trace, expected_bound>>

----------------------------------------------------------------------------
(* Bounds of the model. *)

MaxBindCalls == 3
MaxReadCalls == 1
MaxRecCalls == 2
MaxSeeds == 2
MaxCopyCalls == 2
MaxCopySeeds == 1
MaxPairCalls == 2
MaxAsyncCalls == 4
MaxStoreCalls == 3
MaxModifyCalls == 2
MaxRenameCalls == 2
MaxDnCalls == 2
MaxClients == 3
MaxClientCalls == 2
MaxClientWrites == 2
MaxClientSeeds == 1
MaxUniqueCalls == 3
MaxResetSteps == 4
MaxResetSeeds == 1
MaxOptionCalls == 3
MaxTerms == 2
MaxSeededCalls == 2
MaxSeededSeeds == 1
MaxReadOnlyCalls == 2

----------------------------------------------------------------------------
(* Python values. *)

None == [t |-> "None"]
PyStr(s) == [t |-> "str", v |-> s]
PyInt(n) == [t |-> "int", v |-> n]
PyList(xs) == [t |-> "list", v |-> xs]
PyTuple(xs) == [t |-> "tuple", v |-> xs]
PyDict(d) == [t |-> "dict", v |-> d]
ExcInstance(c) == [t |-> "excinst", v |-> c]
ExcClass(c) == [t |-> "exccls", v |-> c]
Ref(a) == [t |-> "ref", v |-> a]
Free == [t |-> "free"]

(* What a call gives its caller: a returned value or a raised exception. *)
Return(v) == [kind |-> "return", value |-> v]
Raise(e, m) == [kind |-> "raise", exc |-> e, msg |-> m]
NoMsg == <<>>

----------------------------------------------------------------------------
(* Python's str methods, on sequences of characters. *)

UpperCase == <<"A","B","C","D","E","F","G","H","I","J","K","L","M",
               "N","O","P","Q","R","S","T","U","V","W","X","Y","Z">>
LowerCase == <<"a","b","c","d","e","f","g","h","i","j","k","l","m",
               "n","o","p","q","r","s","t","u","v","w","x","y","z">>

LowerChar(c) ==
    IF \E i \in 1..Len(UpperCase) : UpperCase[i] = c
    THEN LowerCase[CHOOSE i \in 1..Len(UpperCase) : UpperCase[i] = c]
    ELSE c

lower(s) == [i \in 1..Len(s) |-> LowerChar(s[i])]

StartsAt(s, sub, i) ==
    /\ i + Len(sub) - 1 <= Len(s)
    /\ \A k \in 1..Len(sub) : s[i + k - 1] = sub[k]

RECURSIVE CountFrom(_, _, _)
CountFrom(s, sub, i) ==
    IF i + Len(sub) - 1 > Len(s) THEN 0
    ELSE IF StartsAt(s, sub, i) THEN 1 + CountFrom(s, sub, i + Len(sub))
    ELSE CountFrom(s, sub, i + 1)

(* s.count(sub): the number of non-overlapping occurrences. *)
count(s, sub) == CountFrom(s, sub, 1)

RECURSIVE SplitFrom(_, _, _, _)
SplitFrom(s, sep, i, cur) ==
    IF i > Len(s) THEN <<cur>>
    ELSE IF StartsAt(s, sep, i) THEN <<cur>> \o SplitFrom(s, sep, i + Len(sep), <<>>)
    ELSE SplitFrom(s, sep, i + 1, Append(cur, s[i]))

(* s.split(sep), sep not empty. *)
split(s, sep) == SplitFrom(s, sep, 1, <<>>)

(* A slice index as Python normalises it: negative counts from the end. *)
SliceIndex(s, i) ==
    LET j == IF i < 0 THEN i + Len(s) ELSE i
    IN  IF j < 0 THEN 0 ELSE IF j > Len(s) THEN Len(s) ELSE j

(* s[i:j] *)
slice(s, i, j) ==
    LET a == SliceIndex(s, i)
        b == SliceIndex(s, j)
    IN  IF b <= a THEN <<>> ELSE SubSeq(s, a + 1, b)

endswith(s, suffix) ==
    /\ Len(suffix) <= Len(s)
    /\ SubSeq(s, Len(s) - Len(suffix) + 1, Len(s)) = suffix

(* x in xs, for a list xs *)
InList(x, xs) == \E i \in 1..Len(xs) : xs[i] = x

----------------------------------------------------------------------------
(* ldap.cidict.cidict: a dictionary whose keys are looked up lower-cased,  *)
(* and which remembers each key as it was last written.                    *)

EmptyCidict == [_keys |-> <<>>, data |-> <<>>]

cidict_has_key(d, key) == lower(key) \in DOMAIN d.data

cidict_getitem(d, key) == d.data[lower(key)]

cidict_setitem(d, key, value) ==
    LET lk == lower(key)
        dom == DOMAIN d.data \cup {lk}
    IN  [_keys |-> [k \in dom |-> IF k = lk THEN key ELSE d._keys[k]],
         data  |-> [k \in dom |-> IF k = lk THEN value ELSE d.data[k]]]

cidict_delitem(d, key) ==
    LET dom == DOMAIN d.data \ {lower(key)}
    IN  [_keys |-> [k \in dom |-> d._keys[k]],
         data  |-> [k \in dom |-> d.data[k]]]

(* d.keys(): the keys as written *)
cidict_keys(d) == {d._keys[k] : k \in DOMAIN d._keys}

(* cidict(content) for a plain dictionary whose keys differ when lower-cased *)
cidict(content) ==
    LET dom == {lower(k) : k \in DOMAIN content}
        orig(lk) == CHOOSE k \in DOMAIN content : lower(k) = lk
    IN  [_keys |-> [lk \in dom |-> orig(lk)],
         data  |-> [lk \in dom |-> content[orig(lk)]]]

----------------------------------------------------------------------------
(* The heap: the mutable objects (lists) the caller passes in or gets      *)
(* back.  A cell holds a value without references, or Free.                *)

(* Enough cells for the caller's two lists and every copy the recorder     *)
(* makes within the bounds: two for a seed, one for a call.                *)
MaxObj == 2 + 2 * (MaxSeeds + MaxCopySeeds) + MaxRecCalls + MaxCopyCalls

Addr == 1..MaxObj

FreshAddr(hp) == CHOOSE a \in Addr : hp[a] = Free /\ \A b \in Addr : hp[b] = Free => a <= b

(* The content a value stands for: the list a reference points to. *)
Resolve(v, hp) == IF v.t = "ref" THEN hp[v.v] ELSE v

ResolveArgs(args, hp) == [i \in 1..Len(args) |-> Resolve(args[i], hp)]

ResolveKwargs(kwargs, hp) ==
    [i \in 1..Len(kwargs) |-> <<kwargs[i][1], Resolve(kwargs[i][2], hp)>>]

(* deepcopy with a slip: the object itself is handed on, as if no copy had *)
(* been asked for.                                                         *)
deepcopy_same_object(v, hp) == [value |-> v, heap |-> hp, fresh |-> FALSE]

(* copy.deepcopy of one value: a list object is copied into a new cell.    *)
(* fresh tells that no object of the copy is an object of the original: a  *)
(* value that is no cell of the heap stands for its content, and fresh is  *)
(* what is known of the objects that make it.                              *)
deepcopy(v, hp) ==
    IF v.t = "ref"
    THEN LET a == FreshAddr(hp)
         IN  [value |-> Ref(a), heap |-> [hp EXCEPT ![a] = hp[v.v]], fresh |-> TRUE]
    ELSE [value |-> v, heap |-> hp, fresh |-> TRUE]

(* copy.deepcopy of the tuple of positional arguments *)
RECURSIVE deepcopy_args(_, _)
deepcopy_args(args, hp) ==
    IF args = <<>> THEN [value |-> <<>>, heap |-> hp]
    ELSE LET h == deepcopy(Head(args), hp)
             r == deepcopy_args(Tail(args), h.heap)
         IN  [value |-> <<h.value>> \o r.value, heap |-> r.heap]

(* copy.deepcopy of the keyword arguments, a sequence of <<name, value>> *)
RECURSIVE deepcopy_kwargs(_, _)
deepcopy_kwargs(kwargs, hp) ==
    IF kwargs = <<>> THEN [value |-> <<>>, heap |-> hp]
    ELSE LET h == deepcopy(Head(kwargs)[2], hp)
             r == deepcopy_kwargs(Tail(kwargs), h.heap)
         IN  [value |-> <<<<Head(kwargs)[1], h.value>>>> \o r.value, heap |-> r.heap]

----------------------------------------------------------------------------
(* Python's binding of a call's arguments to a method's parameters. *)

KwHas(kwargs, name) == \E i \in 1..Len(kwargs) : kwargs[i][1] = name

KwGet(kwargs, name) == kwargs[CHOOSE i \in 1..Len(kwargs) : kwargs[i][1] = name][2]

Param(args, kwargs, pos, name, default) ==
    IF pos <= Len(args) THEN args[pos]
    ELSE IF KwHas(kwargs, name) THEN KwGet(kwargs, name)
    ELSE default

----------------------------------------------------------------------------
(* The simulated client, src/mockldap/ldapobject.py. *)

userPassword == <<"u","s","e","r","P","a","s","s","w","o","r","d">>

RecordedMethods ==
    {"initialize", "get_option", "set_option", "simple_bind_s", "search",
     "result", "search_s", "start_tls_s", "compare_s", "modify_s", "add_s",
     "rename_s", "delete_s", "unbind", "unbind_s"}

(* LDAPObject with a slip: the store is made of the content as it is, with *)
(* no copy of its entries.                                                 *)
LDAPObject_without_deepcopy(directory) ==
    [directory |-> cidict(deepcopy_same_object(PyDict(directory), <<>>).value.v),
     entries_shared |-> ~deepcopy_same_object(PyDict(directory), <<>>).fresh,
     async_results |-> <<>>,
     options |-> <<>>,
     tls_enabled |-> FALSE,
     bound_as |-> None,
     _recorded_calls_internal |-> <<>>,
     _seeded_calls_internal |-> [m \in RecordedMethods |-> <<>>]]

(* LDAPObject(directory): the content is copied, the rest starts empty.    *)
(* entries_shared tells whether the entries of the store are the very      *)
(* objects of the content it was made from, which deepcopy sees they are   *)
(* not.                                                                    *)
LDAPObject(directory) ==
    [directory |-> cidict(deepcopy(PyDict(directory), <<>>).value.v),
     entries_shared |-> ~deepcopy(PyDict(directory), <<>>).fresh,
     async_results |-> <<>>,
     options |-> <<>>,
     tls_enabled |-> FALSE,
     bound_as |-> None,
     _recorded_calls_internal |-> <<>>,
     _seeded_calls_internal |-> [m \in RecordedMethods |-> <<>>]]

(* passlib's md5-crypt text of a password: a string no plain password of   *)
(* the model equals, and which verifies against that password only.        *)
Md5Crypt(s) == <<"{">> \o s

IsMd5Crypt(s) == Len(s) > 0 /\ s[1] = "{"

(* ldap_md5_crypt.verify(value, password) returned True: it raises         *)
(* NameError without passlib and ValueError for a password that is no      *)
(* md5-crypt text, and the code passes over both.                          *)
ldap_md5_crypt_verify(value, password) ==
    passlib /\ IsMd5Crypt(password) /\ password = Md5Crypt(value)

(* _compare_s with a slip: an entry that is not there compares unequal     *)
(* instead of raising NO_SUCH_OBJECT.                                      *)
_compare_s_no_entry_is_unequal(o, dn, attr, value) ==
    IF ~cidict_has_key(o.directory, dn) THEN Return(PyInt(0))
    ELSE LET entry == cidict_getitem(o.directory, dn)
         IN  IF attr \notin DOMAIN entry THEN Raise("UNDEFINED_TYPE", NoMsg)
             ELSE IF /\ attr = userPassword
                     /\ \E i \in 1..Len(entry[attr]) :
                            ldap_md5_crypt_verify(value, entry[attr][i])
                  THEN Return(PyInt(1))
             ELSE Return(PyInt(IF InList(value, entry[attr]) THEN 1 ELSE 0))

(* _compare_s with a slip: only the first stored value is looked at. *)
_compare_s_first_value_only(o, dn, attr, value) ==
    IF ~cidict_has_key(o.directory, dn) THEN Raise("NO_SUCH_OBJECT", NoMsg)
    ELSE LET entry == cidict_getitem(o.directory, dn)
         IN  IF attr \notin DOMAIN entry THEN Raise("UNDEFINED_TYPE", NoMsg)
             ELSE IF /\ attr = userPassword
                     /\ entry[attr] # <<>>
                     /\ ldap_md5_crypt_verify(value, entry[attr][1])
                  THEN Return(PyInt(1))
             ELSE Return(PyInt(IF entry[attr] # <<>> /\ entry[attr][1] = value
                               THEN 1 ELSE 0))

_compare_s(o, dn, attr, value) ==
    IF ~cidict_has_key(o.directory, dn) THEN Raise("NO_SUCH_OBJECT", NoMsg)
    ELSE LET entry == cidict_getitem(o.directory, dn)
         IN  IF attr \notin DOMAIN entry THEN Raise("UNDEFINED_TYPE", NoMsg)
             ELSE IF /\ attr = userPassword
                     /\ \E i \in 1..Len(entry[attr]) :
                            ldap_md5_crypt_verify(value, entry[attr][i])
                  THEN Return(PyInt(1))
             ELSE Return(PyInt(IF InList(value, entry[attr]) THEN 1 ELSE 0))

(* simple_bind_s with a slip: the identity is noted before the password   *)
(* is checked, so a failed bind changes it too.                            *)
simple_bind_s_binds_before_checking(o, args, kwargs) ==
    LET who == Param(args, kwargs, 1, "who", PyStr(<<>>)).v
        cred == Param(args, kwargs, 2, "cred", PyStr(<<>>)).v
        cmp == _compare_s(o, who, userPassword, cred)
        bound == [o EXCEPT !.bound_as = PyStr(who)]
        success == [obj |-> bound, out |-> Return(PyTuple(<<97, <<>>>>))]
    IN  IF who = <<>> /\ cred = <<>> THEN success
        ELSE IF cmp.kind = "raise" THEN [obj |-> bound, out |-> cmp]
        ELSE IF cmp.value.v # 0 THEN success
        ELSE [obj |-> bound, out |-> Raise("INVALID_CREDENTIALS", <<who, cred>>)]

simple_bind_s(o, args, kwargs) ==
    LET who == Param(args, kwargs, 1, "who", PyStr(<<>>)).v
        cred == Param(args, kwargs, 2, "cred", PyStr(<<>>)).v
        cmp == _compare_s(o, who, userPassword, cred)
        success == [obj |-> [o EXCEPT !.bound_as = PyStr(who)],
                    out |-> Return(PyTuple(<<97, <<>>>>))]
    IN  IF who = <<>> /\ cred = <<>> THEN success
        ELSE IF cmp.kind = "raise" THEN [obj |-> o, out |-> cmp]
        ELSE IF cmp.value.v # 0 THEN success
        ELSE [obj |-> o, out |-> Raise("INVALID_CREDENTIALS", <<who, cred>>)]

compare_s(o, args, kwargs) ==
    LET dn == Param(args, kwargs, 1, "dn", None).v
        attr == Param(args, kwargs, 2, "attr", None).v
        value == Param(args, kwargs, 3, "value", None).v
    IN  [obj |-> o, out |-> _compare_s(o, dn, attr, value)]

unbind(o, args, kwargs) ==
    [obj |-> [o EXCEPT !.bound_as = None], out |-> Return(None)]

unbind_s(o, args, kwargs) ==
    [obj |-> [o EXCEPT !.bound_as = None], out |-> Return(None)]

----------------------------------------------------------------------------
(* search_s, src/mockldap/ldapobject.py lines 183-273. *)

SCOPE_BASE == 0
SCOPE_ONELEVEL == 1
SCOPE_SUBTREE == 2

DefaultFilterstr == <<"(","o","b","j","e","c","t","C","l","a","s","s","=","*",")">>

(* The order in which a dictionary's keys are iterated is not fixed by     *)
(* Python; the model iterates them in the order of their text.             *)
Alphabet == <<" ", "!", "&", "(", ")", "*", ",", "<", "=", ">", "{", "|", "~">>
            \o UpperCase \o LowerCase

CharRank(c) ==
    IF \E i \in 1..Len(Alphabet) : Alphabet[i] = c
    THEN CHOOSE i \in 1..Len(Alphabet) : Alphabet[i] = c
    ELSE 0

RECURSIVE StrLess(_, _)
StrLess(s, u) ==
    IF u = <<>> THEN FALSE
    ELSE IF s = <<>> THEN TRUE
    ELSE IF CharRank(Head(s)) # CharRank(Head(u)) THEN CharRank(Head(s)) < CharRank(Head(u))
    ELSE StrLess(Tail(s), Tail(u))

RECURSIVE KeyList(_)
KeyList(keys) ==
    IF keys = {} THEN <<>>
    ELSE LET k == CHOOSE x \in keys : \A y \in keys \ {x} : StrLess(x, y)
         IN  <<k>> \o KeyList(keys \ {k})

(* The condition under which _search_s gives up and asks for a seed. *)
SearchNeedsSeed(filterstr) ==
    \/ count(filterstr, <<"|">>) > 1
    \/ count(filterstr, <<"&">>) > 1
    \/ (count(filterstr, <<"|">>) = 1 /\ filterstr[2] # "|")
    \/ (count(filterstr, <<"&">>) = 1 /\ filterstr[2] # "&")
    \/ count(<<filterstr[Len(filterstr)]>>, <<")", ")">>) > 0
    \/ count(filterstr, <<"!">>) > 0
    \/ count(filterstr, <<"*">>) # count(filterstr, <<"=", "*", ")">>)

(* The subfilters get_results cuts out of the filter before it looks at     *)
(* the filter's kind: filterstr[3:-2].split(')(') *)
Subfilters(filterstr) == split(slice(filterstr, 3, -2), <<")", "(">>)

(* "attr, value = text.split('=')" raises ValueError unless there are two parts *)
Unpacks(text) == Len(split(text, <<"=">>)) = 2

(* filters: each attribute of the subfilters with the set of its values *)
FilterAttrs(filterstr) ==
    {split(Subfilters(filterstr)[i], <<"=">>)[1] : i \in 1..Len(Subfilters(filterstr))}

FilterValues(filterstr, attr) ==
    {split(Subfilters(filterstr)[i], <<"=">>)[2] :
        i \in {j \in 1..Len(Subfilters(filterstr)) :
                  split(Subfilters(filterstr)[j], <<"=">>)[1] = attr}}

(* Whether one item of filters passes on an entry: the values are all      *)
(* among the entry's, or list(value)[0] is '*'.  Which element of a set    *)
(* comes first is not fixed, so both answers may be possible.              *)
ItemPasses(attrs, attr, values) ==
    IF attr \notin DOMAIN attrs THEN {FALSE}
    ELSE IF values \subseteq {attrs[attr][i] : i \in 1..Len(attrs[attr])} THEN {TRUE}
    ELSE {first = <<"*">> : first \in values}

When(cond, x) == IF cond THEN {x} ELSE {}

(* The values "found" may have when get_results has looked at an entry,    *)
(* or "ValueError" when a split does not unpack.                           *)
Found(attrs, filterstr) ==
    LET search_type == filterstr[2]
        items == FilterAttrs(filterstr)
        pass(a) == ItemPasses(attrs, a, FilterValues(filterstr, a))
        simple == split(slice(filterstr, 1, -1), <<"=">>)
    IN  IF \E i \in 1..Len(Subfilters(filterstr)) : ~Unpacks(Subfilters(filterstr)[i])
        THEN {"ValueError"}
        ELSE IF search_type = "&"
        THEN When(\A a \in items : TRUE \in pass(a), "found")
             \cup When(\E a \in items : FALSE \in pass(a), "not found")
        ELSE IF search_type = "|"
        THEN When(\E a \in items : TRUE \in pass(a), "found")
             \cup When(\A a \in items : FALSE \in pass(a), "not found")
        ELSE IF ~Unpacks(slice(filterstr, 1, -1)) THEN {"ValueError"}
        ELSE LET attr == simple[1]
                 value == simple[2]
             IN  IF DOMAIN attrs = {} THEN {IF value = <<"*">> THEN "found" ELSE "not found"}
                 ELSE IF attr \notin DOMAIN attrs THEN {"not found"}
                 ELSE IF attrs[attr] = <<>> THEN {IF value = <<"*">> THEN "found" ELSE "not found"}
                 ELSE {IF InList(value, attrs[attr]) \/ value = <<"*">>
                       THEN "found" ELSE "not found"}

(* Project with a slip: attrsonly empties the values only when no list of  *)
(* attributes is given.                                                    *)
Project_attrsonly_without_list(attrs, attrlist, attrsonly) ==
    LET listed == attrlist.t = "list" /\ attrlist.v # <<>>
        keep == IF listed THEN {a \in DOMAIN attrs : InList(a, attrlist.v)}
                ELSE DOMAIN attrs
    IN  [a \in keep |-> IF attrsonly # 0 /\ ~listed THEN <<>> ELSE attrs[a]]

(* The attributes get_results reports for an entry that was found. *)
Project(attrs, attrlist, attrsonly) ==
    LET listed == attrlist.t = "list" /\ attrlist.v # <<>>
        keep == IF listed THEN {a \in DOMAIN attrs : InList(a, attrlist.v)}
                ELSE DOMAIN attrs
    IN  [a \in keep |-> IF attrsonly # 0 THEN <<>> ELSE attrs[a]]

(* get_results over the candidates in turn: every list of results the call *)
(* may build, or "ValueError" when it raises on the way.                   *)
RECURSIVE get_results(_, _, _, _, _)
get_results(o, dns, filterstr, attrlist, attrsonly) ==
    IF dns = <<>> THEN {[kind |-> "ok", results |-> <<>>]}
    ELSE LET dn == Head(dns)
             attrs == cidict_getitem(o.directory, dn)
             rest == get_results(o, Tail(dns), filterstr, attrlist, attrsonly)
             here(f) == IF f = "found"
                        THEN <<<<dn, Project(attrs, attrlist, attrsonly)>>>>
                        ELSE <<>>
         IN  UNION {IF f = "ValueError" THEN {[kind |-> "ValueError"]}
                    ELSE {IF r.kind = "ok"
                          THEN [kind |-> "ok", results |-> here(f) \o r.results]
                          ELSE r : r \in rest} : f \in Found(attrs, filterstr)}

(* Candidates with a slip: SUBTREE takes the entries below base, and not   *)
(* base itself.                                                            *)
Candidates_subtree_below_base_only(o, base, scope) ==
    LET all_dn == cidict_keys(o.directory)
    IN  IF scope = SCOPE_BASE THEN <<base>>
        ELSE IF scope = SCOPE_ONELEVEL
        THEN KeyList({dn \in all_dn :
                 /\ Len(split(dn, <<"=">>)) = Len(split(base, <<"=">>)) + 1
                 /\ endswith(dn, base)})
        ELSE IF scope = SCOPE_SUBTREE
        THEN KeyList({dn \in all_dn : endswith(dn, base) /\ dn # base})
        ELSE <<>>

(* The entries a scope looks at, in the order of iteration. *)
Candidates(o, base, scope) ==
    LET all_dn == cidict_keys(o.directory)
    IN  IF scope = SCOPE_BASE THEN <<base>>
        ELSE IF scope = SCOPE_ONELEVEL
        THEN KeyList({dn \in all_dn :
                 /\ Len(split(dn, <<"=">>)) = Len(split(base, <<"=">>)) + 1
                 /\ endswith(dn, base)})
        ELSE IF scope = SCOPE_SUBTREE
        THEN KeyList({dn \in all_dn : endswith(dn, base)})
        ELSE <<>>

(* Every outcome _search_s may have. *)
_search_s(o, hp, base, scope, filterstr, attrlist, attrsonly) ==
    IF SearchNeedsSeed(filterstr)
    THEN {Raise("SeedRequired",
                [fmt |-> "search_s", base |-> base, scope |-> scope,
                 filterstr |-> filterstr, attrlist |-> Resolve(attrlist, hp),
                 attrsonly |-> attrsonly])}
    ELSE IF scope = SCOPE_BASE /\ base \notin cidict_keys(o.directory)
    THEN {Raise("NO_SUCH_OBJECT", NoMsg)}
    ELSE {IF r.kind = "ok" THEN Return(PyList(r.results)) ELSE Raise("ValueError", NoMsg) :
            r \in get_results(o, Candidates(o, base, scope), filterstr,
                              Resolve(attrlist, hp), attrsonly)}

(* search_s with a slip: what is cut out of an entry for the attribute     *)
(* list and the attributes-only flag is cut out of the entry of the store. *)
search_s_projects_in_place(o, hp, args, kwargs) ==
    LET base == Param(args, kwargs, 1, "base", None).v
        scope == Param(args, kwargs, 2, "scope", None).v
        filterstr == Param(args, kwargs, 3, "filterstr", PyStr(DefaultFilterstr)).v
        attrlist == Param(args, kwargs, 4, "attrlist", None)
        attrsonly == Param(args, kwargs, 5, "attrsonly", PyInt(0)).v
        projected(out, dn) ==
            IF out.kind = "return" /\ \E i \in 1..Len(out.value.v) : out.value.v[i][1] = dn
            THEN out.value.v[CHOOSE i \in 1..Len(out.value.v) : out.value.v[i][1] = dn][2]
            ELSE cidict_getitem(o.directory, dn)
    IN  {[obj |-> [o EXCEPT !.directory.data =
                      [k \in DOMAIN @ |-> projected(out, o.directory._keys[k])]],
          out |-> out] :
            out \in _search_s(o, hp, base, scope, filterstr, attrlist, attrsonly)}

search_s(o, hp, args, kwargs) ==
    LET base == Param(args, kwargs, 1, "base", None).v
        scope == Param(args, kwargs, 2, "scope", None).v
        filterstr == Param(args, kwargs, 3, "filterstr", PyStr(DefaultFilterstr)).v
        attrlist == Param(args, kwargs, 4, "attrlist", None)
        attrsonly == Param(args, kwargs, 5, "attrsonly", PyInt(0)).v
    IN  {[obj |-> o, out |-> out] :
            out \in _search_s(o, hp, base, scope, filterstr, attrlist, attrsonly)}

----------------------------------------------------------------------------
(* The filter expressions of src/mockldap/filter.py.  A filter is a token   *)
(* with a content, which a test has, and terms, which And, Or and Not have. *)

Test(content) == [code |-> "TEST", content |-> content, terms |-> <<>>]
And(terms) == [code |-> "AND", content |-> <<>>, terms |-> terms]
Or(terms) == [code |-> "OR", content |-> <<>>, terms |-> terms]
Not(term) == [code |-> "NOT", content |-> <<>>, terms |-> <<term>>]

RECURSIVE Join(_)
Join(texts) == IF texts = <<>> THEN <<>> ELSE Head(texts) \o Join(Tail(texts))

(* Where TEST_RE finds the operator of a test: the first "=" that has a    *)
(* character before its operator and a character after it, or 0.           *)
OpStart(content, i) ==
    IF i > 1 /\ content[i - 1] \in {"~", "<", ">"} /\ i > 2 THEN i - 1 ELSE i

TestEq(content) ==
    LET at == {i \in 2..(Len(content) - 1) : content[i] = "="}
    IN  IF at = {} THEN 0 ELSE CHOOSE i \in at : \A j \in at : i <= j

(* Test._parse_expression: the attribute and the value of a test *)
TestAttr(content) == SubSeq(content, 1, OpStart(content, TestEq(content)) - 1)
TestValue(content) == SubSeq(content, TestEq(content) + 1, Len(content))

(* The operator TEST_RE finds in a test *)
TestOp(content) == SubSeq(content, OpStart(content, TestEq(content)), TestEq(content))

(* Test._parse_expression raises UnsupportedOp: the operator is not "=", or *)
(* the value as written has a wildcard and is more than the wildcard.      *)
UnsupportedOp(content) ==
    \/ TestOp(content) # <<"=">>
    \/ /\ \E i \in 1..Len(TestValue(content)) : TestValue(content)[i] = "*"
       /\ TestValue(content) # <<"*">>

(* The hexadecimal digits, and int(digit, 16) *)
HexLower == <<"0", "1", "2", "3", "4", "5", "6", "7", "8", "9", "a", "b", "c", "d", "e", "f">>
HexUpper == <<"0", "1", "2", "3", "4", "5", "6", "7", "8", "9", "A", "B", "C", "D", "E", "F">>
IsHex(c) == \E i \in 1..Len(HexLower) : c = HexLower[i] \/ c = HexUpper[i]
HexValue(c) == (CHOOSE i \in 1..Len(HexLower) : c = HexLower[i] \/ c = HexUpper[i]) - 1

(* chr: the character of a code.  The characters the filters of the model  *)
(* write are in the table, any other is a character of its own.            *)
chr(n) ==
    CASE n = 40 -> "("
      [] n = 41 -> ")"
      [] n = 42 -> "*"
      [] n = 92 -> "\\"
      [] n = 97 -> "a"
      [] n = 98 -> "b"
      [] OTHER -> "chr" \o ToString(n)

(* UNESCAPE_RE.sub: each backslash with two hexadecimal digits after it is  *)
(* replaced by the character of that code, from left to right, and what is *)
(* put in is not looked at again.                                          *)
RECURSIVE unescape(_)
unescape(value) ==
    IF value = <<>> THEN <<>>
    ELSE IF Len(value) >= 3 /\ value[1] = "\\" /\ IsHex(value[2]) /\ IsHex(value[3])
    THEN <<chr(16 * HexValue(value[2]) + HexValue(value[3]))>>
         \o unescape(SubSeq(value, 4, Len(value)))
    ELSE <<value[1]>> \o unescape(Tail(value))

(* unparse with a slip: a test is written with the value it was parsed to, *)
(* in which the escaped characters are resolved.                           *)
RECURSIVE unparse_writes_parsed_value(_)
unparse_writes_parsed_value(f) ==
    LET inner == Join([i \in 1..Len(f.terms) |-> unparse_writes_parsed_value(f.terms[i])])
    IN  CASE f.code = "TEST" ->
                <<"(">> \o TestAttr(f.content) \o <<"=">> \o unescape(TestValue(f.content))
                \o <<")">>
          [] f.code = "AND" -> <<"(", "&">> \o inner \o <<")">>
          [] f.code = "OR" -> <<"(", "|">> \o inner \o <<")">>
          [] f.code = "NOT" -> <<"(", "!">> \o inner \o <<")">>

(* unparse: the text of a filter *)
RECURSIVE unparse(_)
unparse(f) ==
    LET inner == Join([i \in 1..Len(f.terms) |-> unparse(f.terms[i])])
    IN  CASE f.code = "TEST" -> <<"(">> \o f.content \o <<")">>
          [] f.code = "AND" -> <<"(", "&">> \o inner \o <<")">>
          [] f.code = "OR" -> <<"(", "|">> \o inner \o <<")">>
          [] f.code = "NOT" -> <<"(", "!">> \o inner \o <<")">>

(* matches of a token: whether an entry with the attributes attrs passes a filter *)
RECURSIVE Token_matches(_, _)
Token_matches(f, attrs) ==
    CASE f.code = "TEST" ->
            IF TestAttr(f.content) \notin DOMAIN attrs THEN FALSE
            ELSE IF unescape(TestValue(f.content)) = <<"*">>
            THEN Len(attrs[TestAttr(f.content)]) > 0
            ELSE InList(unescape(TestValue(f.content)), attrs[TestAttr(f.content)])
      [] f.code = "AND" -> \A i \in 1..Len(f.terms) : Token_matches(f.terms[i], attrs)
      [] f.code = "OR" -> \E i \in 1..Len(f.terms) : Token_matches(f.terms[i], attrs)
      [] f.code = "NOT" -> ~Token_matches(f.terms[1], attrs)

(* The grammar: where the filter that starts at position i of the text     *)
(* ends, as the position after its closing bracket, or 0 if no filter      *)
(* starts there.  A test is text without brackets that TEST_RE accepts.    *)
TestEnd(s, i) ==
    LET close == {j \in i..Len(s) : s[j] = ")"}
        j == CHOOSE k \in close : \A l \in close : k <= l
    IN  IF close = {} THEN 0
        ELSE IF \E k \in i..(j - 1) : s[k] = "(" THEN 0
        ELSE IF TestEq(SubSeq(s, i, j - 1)) = 0 THEN 0
        ELSE j + 1

RECURSIVE ldap_filter(_, _, _)
ldap_filter(s, i, many) ==
    LET op == IF i + 1 <= Len(s) THEN s[i + 1] ELSE ""
        inner == IF op \in {"&", "|"} THEN ldap_filter(s, i + 2, TRUE)
                 ELSE IF op = "!" THEN ldap_filter(s, i + 2, FALSE)
                 ELSE 0
        end == IF i > Len(s) \/ s[i] # "(" THEN 0
               ELSE IF op \in {"&", "|", "!"}
               THEN IF inner # 0 /\ inner <= Len(s) /\ s[inner] = ")" THEN inner + 1 ELSE 0
               ELSE TestEnd(s, i + 1)
    IN  IF many /\ end # 0 /\ end <= Len(s) /\ s[end] = "("
        THEN ldap_filter(s, end, TRUE)
        ELSE end

(* parse succeeds on the text: one filter, and nothing after it *)
Parses(filterstr) == ldap_filter(filterstr, 1, FALSE) = Len(filterstr) + 1

(* tokenize: the contents of the tests of a text, in order.  A test is the  *)
(* text between two atoms, where an atom is a bracket, or one of & | ! just *)
(* after an opening bracket.                                               *)
RECURSIVE gen_tokens(_, _, _)
gen_tokens(s, i, text) ==
    LET test == IF text = <<>> THEN <<>> ELSE <<text>>
    IN  IF i > Len(s) THEN test
        ELSE IF \/ s[i] \in {"(", ")"}
                \/ s[i] \in {"&", "|", "!"} /\ i > 1 /\ s[i - 1] = "("
        THEN test \o gen_tokens(s, i + 1, <<>>)
        ELSE gen_tokens(s, i + 1, Append(text, s[i]))

tokenize(filterstr) == gen_tokens(filterstr, 1, <<>>)

(* The tree the grammar builds of the filter that starts at position i of  *)
(* a text it accepts, and the trees of the filters in a row from there.    *)
RECURSIVE collapse(_, _)
collapse(s, i) ==
    LET RECURSIVE oneplus(_)
        oneplus(j) ==
            IF j <= Len(s) /\ s[j] = "("
            THEN <<collapse(s, j)>> \o oneplus(ldap_filter(s, j, FALSE))
            ELSE <<>>
    IN  CASE s[i + 1] = "&" -> And(oneplus(i + 2))
          [] s[i + 1] = "|" -> Or(oneplus(i + 2))
          [] s[i + 1] = "!" -> Not(collapse(s, i + 2))
          [] OTHER -> Test(SubSeq(s, i + 1, TestEnd(s, i + 1) - 2))

(* parse: the tree of a text, or the exception it raises: that of the      *)
(* first test that is none or is not supported, which tokenize meets, or   *)
(* else that of the grammar.                                               *)
parse(filterstr) ==
    LET tests == tokenize(filterstr)
        bad == {k \in 1..Len(tests) : TestEq(tests[k]) = 0 \/ UnsupportedOp(tests[k])}
        first == CHOOSE k \in bad : \A l \in bad : k <= l
    IN  IF bad # {}
        THEN IF TestEq(tests[first]) = 0 THEN Raise("FILTER_ERROR", NoMsg)
             ELSE Raise("UnsupportedOp", NoMsg)
        ELSE IF ~Parses(filterstr) THEN Raise("FILTER_ERROR", NoMsg)
        ELSE Return(collapse(filterstr, 1))

----------------------------------------------------------------------------
(* The asynchronous search: search, result and the list of results that    *)
(* wait to be fetched.                                                     *)

RES_SEARCH_RESULT == 101

(* _add_async_result(value): the client with the value appended, and the   *)
(* msgid, which is the value's index from 0.                               *)
_add_async_result(o, value) ==
    [obj |-> [o EXCEPT !.async_results = Append(@, value)],
     msgid |-> Len(o.async_results)]

(* _pop_async_result with a slip: the value stays where it was, so that a  *)
(* msgid can be fetched again.                                             *)
_pop_async_result_keeps_value(o, msgid) ==
    IF msgid \in 0..(Len(o.async_results) - 1)
    THEN [obj |-> o, value |-> o.async_results[msgid + 1]]
    ELSE [obj |-> o, value |-> None]

(* _pop_async_result(msgid): the value under the msgid, which None takes   *)
(* the place of, or None for a msgid outside xrange(len(async_results)).   *)
_pop_async_result(o, msgid) ==
    IF msgid \in 0..(Len(o.async_results) - 1)
    THEN [obj |-> [o EXCEPT !.async_results[msgid + 1] = None],
          value |-> o.async_results[msgid + 1]]
    ELSE [obj |-> o, value |-> None]

search(o, hp, args, kwargs) ==
    LET base == Param(args, kwargs, 1, "base", None).v
        scope == Param(args, kwargs, 2, "scope", None).v
        filterstr == Param(args, kwargs, 3, "filterstr", PyStr(DefaultFilterstr)).v
        attrlist == Param(args, kwargs, 4, "attrlist", None)
        attrsonly == Param(args, kwargs, 5, "attrsonly", PyInt(0)).v
    IN  {IF out.kind = "raise" THEN [obj |-> o, out |-> out]
         ELSE [obj |-> _add_async_result(o, out.value).obj,
               out |-> Return(PyInt(_add_async_result(o, out.value).msgid))] :
            out \in _search_s(o, hp, base, scope, filterstr, attrlist, attrsonly)}

result(o, args, kwargs) ==
    LET msgid == Param(args, kwargs, 1, "msgid", None).v
        popped == _pop_async_result(o, msgid)
    IN  [obj |-> popped.obj,
         out |-> Return(PyTuple(<<RES_SEARCH_RESULT, popped.value>>))]

----------------------------------------------------------------------------
(* add_s and delete_s.  The record of add_s is a list of pairs of an       *)
(* attribute and its values.                                               *)

(* entry[item[0]] = list(item[1]) for the items in turn: the last item of  *)
(* an attribute is the one that stays.                                     *)
EntryOfRecord(record) ==
    [a \in {record[i][1] : i \in 1..Len(record)} |->
        record[CHOOSE i \in 1..Len(record) :
                  /\ record[i][1] = a
                  /\ \A j \in 1..Len(record) : record[j][1] = a => j <= i][2]]

(* _add_s with a slip: an entry that exists is replaced. *)
_add_s_replaces_existing(o, dn, record) ==
    [obj |-> [o EXCEPT !.directory = cidict_setitem(@, dn, EntryOfRecord(record))],
     out |-> Return(PyTuple(<<105, <<>>, Len(o._recorded_calls_internal), <<>>>>))]

(* _add_s with a slip: the dn is looked for among the keys as they are     *)
(* written.                                                                *)
_add_s_looks_for_key_as_written(o, dn, record) ==
    IF dn \in cidict_keys(o.directory)
    THEN [obj |-> o, out |-> Raise("ALREADY_EXISTS", NoMsg)]
    ELSE [obj |-> [o EXCEPT !.directory = cidict_setitem(@, dn, EntryOfRecord(record))],
          out |-> Return(PyTuple(<<105, <<>>, Len(o._recorded_calls_internal), <<>>>>))]

_add_s(o, dn, record) ==
    IF cidict_has_key(o.directory, dn)
    THEN [obj |-> o, out |-> Raise("ALREADY_EXISTS", NoMsg)]
    ELSE [obj |-> [o EXCEPT !.directory = cidict_setitem(@, dn, EntryOfRecord(record))],
          out |-> Return(PyTuple(<<105, <<>>, Len(o._recorded_calls_internal), <<>>>>))]

add_s(o, args, kwargs) ==
    _add_s(o, Param(args, kwargs, 1, "dn", None).v, Param(args, kwargs, 2, "record", None).v)

(* _delete_s with a slip: the entry goes, but its key stays among the keys. *)
_delete_s_keeps_key(o, dn) ==
    IF cidict_has_key(o.directory, dn)
    THEN [obj |-> [o EXCEPT !.directory.data = cidict_delitem(o.directory, dn).data],
          out |-> Return(PyTuple(<<107, <<>>>>))]
    ELSE [obj |-> o, out |-> Raise("NO_SUCH_OBJECT", NoMsg)]

_delete_s(o, dn) ==
    IF cidict_has_key(o.directory, dn)
    THEN [obj |-> [o EXCEPT !.directory = cidict_delitem(@, dn)],
          out |-> Return(PyTuple(<<107, <<>>>>))]
    ELSE [obj |-> o, out |-> Raise("NO_SUCH_OBJECT", NoMsg)]

delete_s(o, args, kwargs) ==
    _delete_s(o, Param(args, kwargs, 1, "dn", None).v)

----------------------------------------------------------------------------
(* modify_s and rename_s.  A modification is a triple of an op, the name   *)
(* of an attribute and a value, which is None, a string or a list.  What   *)
(* an entry holds for an attribute is a list of strings, or, once modify_s *)
(* or rename_s has written it, a string or None as it was given.           *)

MOD_ADD == 0
MOD_DELETE == 1
MOD_REPLACE == 2

(* The value as the entry holds it: a list by its elements, and a string  *)
(* or None, which are no lists, under a mark that no element is.           *)
StrMark == <<"<str>">>
NoneMark == <<"<None>">>
Held(value) ==
    IF value.t = "list" THEN value.v
    ELSE IF value.t = "str" THEN <<StrMark, value.v>>
    ELSE <<NoneMark>>

(* entry[key] = value *)
SetAttr(entry, key, value) ==
    [a \in DOMAIN entry \cup {key} |-> IF a = key THEN value ELSE entry[a]]

(* The loop of _modify_s over the modifications in turn: the entry as the  *)
(* loop leaves it, and the exception that ended it, if one did.  MOD_ADD   *)
(* calls key.append, which a string has not got; MOD_DELETE reads row      *)
(* before it is assigned.  The entry is changed in place, so what earlier  *)
(* modifications wrote stays when a later one raises.                      *)
RECURSIVE ModifyLoop(_, _)
ModifyLoop(entry, mod_attrs) ==
    IF mod_attrs = <<>> THEN [entry |-> entry, exc |-> ""]
    ELSE LET op == Head(mod_attrs)[1]
             key == Head(mod_attrs)[2]
             value == Head(mod_attrs)[3]
         IN  IF op = MOD_ADD THEN [entry |-> entry, exc |-> "AttributeError"]
             ELSE IF op = MOD_DELETE THEN [entry |-> entry, exc |-> "UnboundLocalError"]
             ELSE IF op = MOD_REPLACE
             THEN ModifyLoop(SetAttr(entry, key, Held(value)), Tail(mod_attrs))
             ELSE ModifyLoop(entry, Tail(mod_attrs))

(* _modify_s with a slip: the loop works on a copy of the entry, which is  *)
(* stored when the loop is through, so that a modification that raises     *)
(* leaves nothing of those before it.                                      *)
_modify_s_all_or_nothing(o, dn, mod_attrs) ==
    IF ~cidict_has_key(o.directory, dn)
    THEN [obj |-> o, out |-> Raise("NO_SUCH_OBJECT", NoMsg)]
    ELSE LET done == ModifyLoop(cidict_getitem(o.directory, dn), mod_attrs)
         IN  IF done.exc # ""
             THEN [obj |-> o, out |-> Raise(done.exc, NoMsg)]
             ELSE [obj |-> [o EXCEPT !.directory = cidict_setitem(@, dn, done.entry)],
                   out |-> Return(PyTuple(<<103, <<>>>>))]

_modify_s(o, dn, mod_attrs) ==
    IF ~cidict_has_key(o.directory, dn)
    THEN [obj |-> o, out |-> Raise("NO_SUCH_OBJECT", NoMsg)]
    ELSE LET done == ModifyLoop(cidict_getitem(o.directory, dn), mod_attrs)
         IN  IF done.exc # ""
             THEN [obj |-> [o EXCEPT !.directory.data[lower(dn)] = done.entry],
                   out |-> Raise(done.exc, NoMsg)]
             ELSE [obj |-> [o EXCEPT !.directory = cidict_setitem(@, dn, done.entry)],
                   out |-> Return(PyTuple(<<103, <<>>>>))]

modify_s(o, args, kwargs) ==
    _modify_s(o, Param(args, kwargs, 1, "dn", None).v,
              Param(args, kwargs, 2, "mod_attrs", None).v)

(* sep.join(parts) *)
RECURSIVE JoinWith(_, _)
JoinWith(sep, parts) ==
    IF parts = <<>> THEN <<>>
    ELSE IF Len(parts) = 1 THEN parts[1]
    ELSE parts[1] \o sep \o JoinWith(sep, Tail(parts))

(* The dn _rename_s moves the entry to: the first two parts of newdn about *)
(* "=", and what follows the first comma of dn.                            *)
NewFullDn(dn, newdn) ==
    split(newdn, <<"=">>)[1] \o <<"=">> \o split(newdn, <<"=">>)[2] \o <<",">>
        \o JoinWith(<<",">>, Tail(split(dn, <<",">>)))

(* "raise self.NO_SUCH_OBJECT" for a dn without entry: the client has no   *)
(* such attribute, so that AttributeError is what is raised.               *)
_rename_s(o, dn, newdn) ==
    LET changes == split(newdn, <<"=">>)
        entry == cidict_getitem(o.directory, dn)
    IN  IF ~cidict_has_key(o.directory, dn)
        THEN [obj |-> o, out |-> Raise("AttributeError", NoMsg)]
        ELSE IF Len(changes) < 2
        THEN [obj |-> o, out |-> Raise("IndexError", NoMsg)]
        ELSE [obj |-> [o EXCEPT !.directory =
                          cidict_delitem(
                              cidict_setitem(@, NewFullDn(dn, newdn),
                                             SetAttr(entry, changes[1], Held(PyStr(changes[2])))),
                              dn)],
              out |-> Return(PyTuple(<<109, <<>>>>))]

(* rename_s(self, dn, newdn): a call with more arguments is a TypeError *)
rename_s(o, args, kwargs) ==
    IF Len(args) + Len(kwargs) # 2
    THEN [obj |-> o, out |-> Raise("TypeError", NoMsg)]
    ELSE _rename_s(o, Param(args, kwargs, 1, "dn", None).v,
                   Param(args, kwargs, 2, "newdn", None).v)

----------------------------------------------------------------------------
(* The options and the TLS flag.  An option is kept as the object that was *)
(* given for it.                                                           *)

get_option(o, args, kwargs) ==
    LET option == Param(args, kwargs, 1, "option", None)
    IN  IF option \in DOMAIN o.options
        THEN [obj |-> o, out |-> Return(o.options[option])]
        ELSE [obj |-> o, out |-> Raise("KeyError", NoMsg)]

set_option(o, args, kwargs) ==
    LET option == Param(args, kwargs, 1, "option", None)
        invalue == Param(args, kwargs, 2, "invalue", None)
    IN  [obj |-> [o EXCEPT !.options = [k \in DOMAIN @ \cup {option} |->
                                           IF k = option THEN invalue ELSE @[k]]],
         out |-> Return(None)]

start_tls_s(o, args, kwargs) ==
    [obj |-> [o EXCEPT !.tls_enabled = TRUE], out |-> Return(None)]

----------------------------------------------------------------------------
(* The call recorder, src/mockldap/recording.py. *)

(* The call of self.func in __call__: every outcome the undecorated method *)
(* may have, with the client as it leaves it.                              *)
func(name, o, hp, args, kwargs) ==
    CASE name = "simple_bind_s" -> {simple_bind_s(o, args, kwargs)}
      [] name = "compare_s" -> {compare_s(o, args, kwargs)}
      [] name = "unbind" -> {unbind(o, args, kwargs)}
      [] name = "unbind_s" -> {unbind_s(o, args, kwargs)}
      [] name = "search_s" -> search_s(o, hp, args, kwargs)
      [] name = "search" -> search(o, hp, args, kwargs)
      [] name = "result" -> {result(o, args, kwargs)}
      [] name = "add_s" -> {add_s(o, args, kwargs)}
      [] name = "delete_s" -> {delete_s(o, args, kwargs)}
      [] name = "modify_s" -> {modify_s(o, args, kwargs)}
      [] name = "rename_s" -> {rename_s(o, args, kwargs)}
      [] name = "initialize" -> {[obj |-> o, out |-> Return(None)]}
      [] name = "get_option" -> {get_option(o, args, kwargs)}
      [] name = "set_option" -> {set_option(o, args, kwargs)}
      [] name = "start_tls_s" -> {start_tls_s(o, args, kwargs)}

(* _record with a slip: the keyword arguments are left out of the record. *)
_record_without_kwargs(o, name, args, kwargs) ==
    [o EXCEPT !._recorded_calls_internal = Append(@, <<name, args, <<>>>>)]

_record(o, name, args, kwargs) ==
    [o EXCEPT !._recorded_calls_internal = Append(@, <<name, args, kwargs>>)]

(* seed[0] == (args, kwargs): Python compares lists by their content.  The  *)
(* keyword arguments are kept in the order of their names.                  *)
_seed_matches(hp, args, kwargs, seed) ==
    <<ResolveArgs(seed[1][1], hp), ResolveKwargs(seed[1][2], hp)>>
        = <<ResolveArgs(args, hp), ResolveKwargs(kwargs, hp)>>

_seeded_values(o, hp, name, args, kwargs) ==
    SelectSeq(o._seeded_calls_internal[name],
              LAMBDA seed : _seed_matches(hp, args, kwargs, seed))

(* _is_exception with a slip: only instances are told, not classes. *)
_is_exception_instances_only(value) == value.t = "excinst"

_is_exception(value) == value.t \in {"excinst", "exccls"}

_call_repr(hp, name, args, kwargs) ==
    <<name, ResolveArgs(args, hp), ResolveKwargs(kwargs, hp)>>

(* The lists of the store that are in what the implementation returns: a   *)
(* search gives each entry it found as attrs.copy(), a new dict with the   *)
(* store's own lists of values, which attrsonly replaces by new lists.     *)
(* The pair <<i, a>> is the list of attribute a in the i-th result.        *)
StoreLists(name, args, kwargs, value) ==
    IF name = "search_s" /\ Param(args, kwargs, 5, "attrsonly", PyInt(0)).v = 0
    THEN UNION {{<<i, a>> : a \in DOMAIN value.v[i][2]} : i \in 1..Len(value.v)}
    ELSE {}

(* RecordedMethod.__call__ with a slip: self.func is called before the     *)
(* seeds are looked at, and what it returns or raises gives way to a seed  *)
(* that matches.                                                           *)
RecordedMethod_call_runs_func_first(o, hp, name, args, kwargs) ==
    LET o1 == _record(o, name, args, kwargs)
        matches == _seeded_values(o1, hp, name, args, kwargs)
        value == matches[1][2]
        copy == deepcopy(value, hp)
    IN  {IF matches # <<>>
         THEN [obj |-> r.obj, heap |-> IF _is_exception(value) THEN hp ELSE copy.heap,
               ran |-> TRUE, shares |-> {},
               out |-> IF _is_exception(value) THEN Raise(value.v, NoMsg)
                       ELSE Return(copy.value)]
         ELSE IF r.out.kind = "raise"
         THEN [obj |-> r.obj, heap |-> hp, ran |-> TRUE, shares |-> {}, out |-> r.out]
         ELSE [obj |-> r.obj, heap |-> deepcopy(r.out.value, hp).heap, ran |-> TRUE,
               shares |-> {}, out |-> Return(deepcopy(r.out.value, hp).value)] :
            r \in func(name, o1, hp, args, kwargs)}

(* RecordedMethod.__call__: every result the call may have: the client and  *)
(* the heap after it, what the caller gets, whether self.func ran, and the  *)
(* lists of the store that are in what the caller gets.                     *)
RecordedMethod_call(o, hp, name, args, kwargs) ==
    LET o1 == _record(o, name, args, kwargs)
        matches == _seeded_values(o1, hp, name, args, kwargs)
        value == matches[1][2]
        copy == deepcopy(value, hp)
        through(r) ==
            IF r.out.kind = "raise" /\ r.out.exc = "SeedRequired"
            THEN [obj |-> r.obj, heap |-> hp, ran |-> TRUE, shares |-> {},
                  out |-> Raise("SeedRequired",
                                [call |-> _call_repr(hp, name, args, kwargs),
                                 inner |-> r.out.msg])]
            ELSE IF r.out.kind = "raise"
            THEN [obj |-> r.obj, heap |-> hp, ran |-> TRUE, shares |-> {}, out |-> r.out]
            ELSE [obj |-> r.obj, heap |-> deepcopy(r.out.value, hp).heap, ran |-> TRUE,
                  shares |-> IF deepcopy(r.out.value, hp).fresh THEN {}
                             ELSE StoreLists(name, args, kwargs, r.out.value),
                  out |-> Return(deepcopy(r.out.value, hp).value)]
    IN  IF matches # <<>>
        THEN IF _is_exception(value)
             THEN {[obj |-> o1, heap |-> hp, ran |-> FALSE, shares |-> {},
                    out |-> Raise(value.v, NoMsg)]}
             ELSE {[obj |-> o1, heap |-> copy.heap, ran |-> FALSE, shares |-> {},
                    out |-> Return(copy.value)]}
        ELSE {through(r) : r \in func(name, o1, hp, args, kwargs)}

(* set_return_value with a slip: the seed goes to the end of the list, so   *)
(* that the oldest matching seed is found first.                           *)
set_return_value_appends(o, hp, name, args, kwargs, value) ==
    LET a == deepcopy_args(args, hp)
        k == deepcopy_kwargs(kwargs, a.heap)
        v == deepcopy(value, k.heap)
    IN  [obj |-> [o EXCEPT !._seeded_calls_internal[name] =
                      @ \o <<<<<<a.value, k.value>>, v.value>>>>],
         heap |-> v.heap]

(* RecordedMethod.set_return_value, which RecordedMethod.seed wraps *)
set_return_value(o, hp, name, args, kwargs, value) ==
    LET a == deepcopy_args(args, hp)
        k == deepcopy_kwargs(kwargs, a.heap)
        v == deepcopy(value, k.heap)
    IN  [obj |-> [o EXCEPT !._seeded_calls_internal[name] =
                      <<<<<<a.value, k.value>>, v.value>>>> \o @],
         heap |-> v.heap]

(* RecordableMethods.methods_called(with_args=True): a copy of the call log *)
methods_called_with_args(o, hp) ==
    [i \in 1..Len(o._recorded_calls_internal) |->
        <<o._recorded_calls_internal[i][1],
          ResolveArgs(o._recorded_calls_internal[i][2], hp),
          ResolveKwargs(o._recorded_calls_internal[i][3], hp)>>]

(* RecordableMethods.methods_called() *)
methods_called(o) ==
    [i \in 1..Len(o._recorded_calls_internal) |-> o._recorded_calls_internal[i][1]]

----------------------------------------------------------------------------
(* The strings of the model's inputs. *)

EmptyDict == [k \in {} |-> <<>>]

dn_test == <<"o","=","t">>  \* o=t
dn_example == <<"o","u","=","e",",","o","=","t">>  \* ou=e,o=t
dn_alice == <<"c","n","=","a",",","o","u","=","e",",","o","=","t">>  \* cn=a,ou=e,o=t
dn_Alice == <<"c","n","=","A",",","o","u","=","E",",","o","=","t">>  \* cn=A,ou=E,o=t
dn_missing == <<"c","n","=","x",",","o","u","=","e",",","o","=","t">>  \* cn=x,ou=e,o=t
attr_cn == <<"c","n">>  \* cn
attr_ou == <<"o","u">>  \* ou
attr_sn == <<"s","n">>  \* sn
val_a == <<"a">>  \* a
val_e == <<"e">>  \* e
pw1 == <<"p","1">>  \* p1
pw2 == <<"p","2">>  \* p2
attr_o == <<"o">>  \* o
val_t == <<"t">>  \* t
filter_cn_a == <<"(","c","n","=","a",")">>  \* (cn=a)
filter_cn_any == <<"(","c","n","=","*",")">>  \* (cn=*)
filter_sn_any == <<"(","s","n","=","*",")">>  \* (sn=*)
filter_approx == <<"(","c","n","~","=","a",")">>  \* (cn~=a)
filter_o_t == <<"(","o","=","t",")">>  \* (o=t)
filter_wildcard == <<"(","c","n","=","f","*","b",")">>  \* (cn=f*b)
dn_bob == <<"c","n","=","b",",","o","u","=","e",",","o","=","t">>  \* cn=b,ou=e,o=t
val_b == <<"b">>  \* b
val_c == <<"c">>  \* c
attr_zz == <<"z","z">>  \* zz
test_cn_a == <<"c","n","=","a">>  \* cn=a
test_cn_b == <<"c","n","=","b">>  \* cn=b
test_sn_b == <<"s","n","=","b">>  \* sn=b
test_cn_any == <<"c","n","=","*">>  \* cn=*
test_ou_e == <<"o","u","=","e">>  \* ou=e
test_zz_y == <<"z","z","=","y">>  \* zz=y
filter_bare == <<"z","z","=","*">>  \* zz=*
filter_empty_value == <<"(","z","z","=",")">>  \* (zz=)
dn_TEST == <<"O","=","T">>  \* O=T
dn_cot == <<"c","o","=","t">>  \* co=t
dn_under_cot == <<"c","n","=","a",",","c","o","=","t">>  \* cn=a,co=t
dn_multi == <<"c","n","=","a","+","s","n","=","b",",","o","=","t">>  \* cn=a+sn=b,o=t
dn_sn_b == <<"s","n","=","b",",","o","=","t">>  \* sn=b,o=t
filter_sn_b == <<"(","s","n","=","b",")">>  \* (sn=b)

----------------------------------------------------------------------------
(* The registry of clients, src/mockldap/__init__.py.  A MockLdap has the  *)
(* content set for each URI, the table of the clients by URI, which is     *)
(* None while there is none, and the paths it has patched.  A client is a  *)
(* cell of the heap, and the table holds references.  What mock.patch does *)
(* is the library's: it replaces the attribute a path names by initialize, *)
(* and its start raises when the path names none.                          *)

URI_DEFAULT == "__default__"

DefaultDict(d) == [t |-> "defaultdict", v |-> d]
Client(o) == [t |-> "LDAPObject", v |-> o]

(* d[k] = v *)
dict_setitem(d, k, v) == [x \in DOMAIN d \cup {k} |-> IF x = k THEN v ELSE d[x]]

(* map_keys(lambda s: s.lower(), directory) *)
map_keys_lower(directory) ==
    [lk \in {lower(dn) : dn \in DOMAIN directory} |->
        directory[CHOOSE dn \in DOMAIN directory : lower(dn) = lk]]

(* The keys and values LDAPObject reads from the content set for a URI *)
Items(content) == [k \in cidict_keys(content) |-> cidict_getitem(content, k)]

set_directory(m, directory, uri) ==
    IF m.ldap_objects # None
    THEN [obj |-> m, out |-> Raise("Exception", NoMsg)]
    ELSE [obj |-> [m EXCEPT !.directories =
                      dict_setitem(@, uri, cidict(map_keys_lower(directory)))],
          out |-> Return(None)]

MockLdap(directory) ==
    LET m == [directories |-> <<>>, ldap_objects |-> None, patchers |-> {}]
    IN  IF directory = None THEN m ELSE set_directory(m, directory.v, URI_DEFAULT).obj

(* The paths that name an attribute of a module, which patch can replace *)
Patchable == {"ldap.initialize", "mockldap.tests.initialize"}

(* map_values(LDAPObject, self.directories): a client for each URI that    *)
(* content is set for, the URIs taken in the order uris.                   *)
RECURSIVE map_values_LDAPObject(_, _, _, _)
map_values_LDAPObject(directories, uris, hp, made) ==
    IF uris = <<>> THEN [heap |-> hp, ldap_objects |-> made]
    ELSE LET a == FreshAddr(hp)
         IN  map_values_LDAPObject(
                 directories, Tail(uris),
                 [hp EXCEPT ![a] = Client(LDAPObject(Items(directories[Head(uris)])))],
                 dict_setitem(made, Head(uris), Ref(a)))

RECURSIVE SetToSeq(_)
SetToSeq(S) ==
    IF S = {} THEN <<>>
    ELSE LET x == CHOOSE y \in S : TRUE IN <<x>> \o SetToSeq(S \ {x})

(* start with a slip: a path that is patched is patched again. *)
start_without_duplicate_check(m, hp, path) ==
    LET made == IF m.ldap_objects = None
                THEN map_values_LDAPObject(m.directories, SetToSeq(DOMAIN m.directories),
                                           hp, <<>>)
                ELSE [heap |-> hp, ldap_objects |-> m.ldap_objects.v]
        m1 == [m EXCEPT !.ldap_objects = DefaultDict(made.ldap_objects)]
    IN  IF path \notin Patchable
        THEN [obj |-> m1, heap |-> made.heap, out |-> Raise("AttributeError", NoMsg)]
        ELSE [obj |-> [m1 EXCEPT !.patchers = @ \cup {path}], heap |-> made.heap,
              out |-> Return(None)]

start(m, hp, path) ==
    LET made == IF m.ldap_objects = None
                THEN map_values_LDAPObject(m.directories, SetToSeq(DOMAIN m.directories),
                                           hp, <<>>)
                ELSE [heap |-> hp, ldap_objects |-> m.ldap_objects.v]
        m1 == [m EXCEPT !.ldap_objects = DefaultDict(made.ldap_objects)]
    IN  IF path \in m.patchers
        THEN [obj |-> m, heap |-> hp, out |-> Raise("ValueError", NoMsg)]
        ELSE IF path \notin Patchable
        THEN [obj |-> m1, heap |-> made.heap, out |-> Raise("AttributeError", NoMsg)]
        ELSE [obj |-> [m1 EXCEPT !.patchers = @ \cup {path}], heap |-> made.heap,
              out |-> Return(None)]

_new_ldap_object(m) ==
    IF URI_DEFAULT \in DOMAIN m.directories
    THEN Return(Client(LDAPObject(Items(m.directories[URI_DEFAULT]))))
    ELSE Raise("KeyError", <<"No default mock LDAP content provided">>)

stop(m, path) ==
    IF path \notin m.patchers
    THEN [obj |-> m, out |-> Raise("ValueError", NoMsg)]
    ELSE [obj |-> [m EXCEPT !.patchers = @ \ {path},
                            !.ldap_objects = IF m.patchers \ {path} = {} THEN None ELSE @],
          out |-> Return(None)]

stop_all(m) ==
    [obj |-> [m EXCEPT !.patchers = {}, !.ldap_objects = None], out |-> Return(None)]

(* __getitem__ with a slip: a client is made anew for a URI that has one. *)
__getitem___makes_anew(m, hp, uri) ==
    IF m.ldap_objects = None
    THEN [obj |-> m, heap |-> hp,
          out |-> Raise("KeyError", <<"You must call start() before asking for mock LDAP objects.">>)]
    ELSE IF _new_ldap_object(m).kind = "raise"
    THEN [obj |-> m, heap |-> hp, out |-> _new_ldap_object(m)]
    ELSE LET a == FreshAddr(hp)
         IN  [obj |-> [m EXCEPT !.ldap_objects.v = dict_setitem(@, uri, Ref(a))],
              heap |-> [hp EXCEPT ![a] = _new_ldap_object(m).value],
              out |-> Return(Ref(a))]

(* self.ldap_objects[uri] of a defaultdict: for a URI it has not got, what *)
(* _new_ldap_object returns is put in under the URI.                       *)
__getitem__(m, hp, uri) ==
    IF m.ldap_objects = None
    THEN [obj |-> m, heap |-> hp,
          out |-> Raise("KeyError", <<"You must call start() before asking for mock LDAP objects.">>)]
    ELSE IF uri \in DOMAIN m.ldap_objects.v
    THEN [obj |-> m, heap |-> hp, out |-> Return(m.ldap_objects.v[uri])]
    ELSE IF _new_ldap_object(m).kind = "raise"
    THEN [obj |-> m, heap |-> hp, out |-> _new_ldap_object(m)]
    ELSE LET a == FreshAddr(hp)
         IN  [obj |-> [m EXCEPT !.ldap_objects.v = dict_setitem(@, uri, Ref(a))],
              heap |-> [hp EXCEPT ![a] = _new_ldap_object(m).value],
              out |-> Return(Ref(a))]

(* The entries a call writes in place: _modify_s and _rename_s assign into *)
(* the entry the store holds (entry[key] = value), so that the change is   *)
(* seen wherever that entry object is held.  By the key of the store, the  *)
(* entry as the call leaves it.                                            *)
WrittenInPlace(name, o, args, after) ==
    LET dn == args[1].v
        changes == split(args[2].v, <<"=">>)
    IN  IF name = "modify_s" /\ cidict_has_key(o.directory, dn)
        THEN [k \in {lower(dn)} |-> after.directory.data[lower(dn)]]
        ELSE IF /\ name = "rename_s" /\ Len(args) = 2
                /\ cidict_has_key(o.directory, dn) /\ Len(changes) >= 2
        THEN [k \in {lower(dn)} |->
                 SetAttr(cidict_getitem(o.directory, dn), changes[1], Held(PyStr(changes[2])))]
        ELSE <<>>

(* A store after entries it may hold were written in place elsewhere *)
SeenIn(directory, written) ==
    [directory EXCEPT !.data = [k \in DOMAIN @ |-> IF k \in DOMAIN written THEN written[k] ELSE @[k]]]

(* MockLdap.initialize, which a patched path calls: every outcome *)
initialize(m, hp, uri) ==
    LET got == __getitem__(m, hp, uri)
        a == got.out.value.v
    IN  IF got.out.kind = "raise" THEN {got}
        ELSE {[obj |-> got.obj,
               heap |-> [r.heap EXCEPT ![a] = Client(r.obj)],
               out |-> IF r.out.kind = "raise" THEN r.out ELSE got.out] :
              r \in RecordedMethod_call(got.heap[a].v, got.heap, "initialize",
                                        <<PyStr(uri)>>, <<>>)}

----------------------------------------------------------------------------
(* The client of src/mockldap/ldap/ldapobject.py, which has reset.  It     *)
(* keeps its calls in the list calls, as pairs of the name of an API and   *)
(* its arguments by name, and its preset return values in                  *)
(* return_value_maps, for each API a dictionary from the tuple of          *)
(* arguments to the value.                                                 *)

(* reset with a slip: the preset return values are left as they are. *)
ldap_reset_keeps_return_values(o) ==
    [o EXCEPT !.calls = <<>>,
              !.async_results = <<>>,
              !.options = <<>>,
              !.tls_enabled = FALSE]

(* LDAPObject.reset *)
ldap_reset(o) ==
    [o EXCEPT !.calls = <<>>,
              !.return_value_maps = <<>>,
              !.async_results = <<>>,
              !.options = <<>>,
              !.tls_enabled = FALSE]

(* LDAPObject(directory): the directory as it is given, and a reset *)
ldap_LDAPObject(directory) ==
    ldap_reset([directory |-> cidict(directory), calls |-> <<>>, return_value_maps |-> <<>>,
                async_results |-> <<>>, options |-> <<>>, tls_enabled |-> FALSE])

(* set_return_value(api_name, arguments, value): a defaultdict of          *)
(* dictionaries, which has an empty one for an API that has none yet       *)
ldap_set_return_value(o, api_name, arguments, value) ==
    LET had == IF api_name \in DOMAIN o.return_value_maps
               THEN o.return_value_maps[api_name] ELSE <<>>
    IN  [o EXCEPT !.return_value_maps =
            dict_setitem(@, api_name, dict_setitem(had, arguments, value))]

ldap_methods_called(o) == [i \in 1..Len(o.calls) |-> o.calls[i][1]]

ldap__record_call(o, api_name, arguments) ==
    [o EXCEPT !.calls = Append(@, <<api_name, arguments>>)]

(* _get_return_value: the preset value, None where there is none, and an   *)
(* exception instance is raised.  The lookup leaves an empty dictionary    *)
(* for an API that had none.                                               *)
ldap__get_return_value(o, api_name, arguments) ==
    LET had == IF api_name \in DOMAIN o.return_value_maps
               THEN o.return_value_maps[api_name] ELSE <<>>
        o1 == [o EXCEPT !.return_value_maps = dict_setitem(@, api_name, had)]
        value == IF arguments \in DOMAIN had THEN had[arguments] ELSE None
    IN  [obj |-> o1,
         out |-> IF value.t = "excinst" THEN Raise(value.v, NoMsg) ELSE Return(value)]

ldap__compare_s(o, dn, attr, value) ==
    IF ~cidict_has_key(o.directory, dn) THEN Raise("NO_SUCH_OBJECT", NoMsg)
    ELSE IF attr \notin DOMAIN cidict_getitem(o.directory, dn)
    THEN Raise("NO_SUCH_ATTRIBUTE", NoMsg)
    ELSE Return(PyInt(IF InList(value, cidict_getitem(o.directory, dn)[attr]) THEN 1 ELSE 0))

(* compare_s: the call is recorded, and the implementation answers where   *)
(* no value is preset, or None is.  ran tells that it did.                 *)
ldap_compare_s(o, dn, attr, value) ==
    LET o1 == ldap__record_call(o, "compare_s",
                                [dn |-> PyStr(dn), attr |-> PyStr(attr), value |-> PyStr(value)])
        got == ldap__get_return_value(o1, "compare_s", <<PyStr(dn), PyStr(attr), PyStr(value)>>)
    IN  IF got.out.kind = "raise" THEN [obj |-> got.obj, out |-> got.out, ran |-> FALSE]
        ELSE IF got.out.value = None
        THEN [obj |-> got.obj, out |-> ldap__compare_s(got.obj, dn, attr, value), ran |-> TRUE]
        ELSE [obj |-> got.obj, out |-> got.out, ran |-> FALSE]

----------------------------------------------------------------------------
(* What the caller does and remembers. *)

NoCall == [name |-> "", args |-> <<>>, kwargs |-> <<>>, sig |-> <<>>,
           out |-> Return(None), seen |-> None, ran |-> FALSE, nseeds |-> 0,
           shares |-> {}]

(* The caller invokes the recorded method name of obj and notes what it gets. *)
Invoke(name, args, kwargs) ==
    \E r \in RecordedMethod_call(obj, heap, name, args, kwargs) :
        /\ obj' = r.obj
        /\ heap' = r.heap
        /\ held' = IF r.out.kind = "return" /\ r.out.value.t = "ref"
                   THEN held \cup {r.out.value.v} ELSE held
        /\ last' = [name |-> name, args |-> args, kwargs |-> kwargs,
                    sig |-> _call_repr(heap, name, args, kwargs),
                    out |-> r.out,
                    seen |-> IF r.out.kind = "return" THEN Resolve(r.out.value, r.heap)
                             ELSE None,
                    ran |-> r.ran,
                    nseeds |-> Len(seeded),
                    shares |-> r.shares]
        /\ invoked' = Append(invoked, <<name, args, kwargs>>)
        /\ trace' = Append(trace, [before |-> obj.directory, called |-> methods_called(obj),
                                   out |-> r.out])
        /\ expected_bound' =
              IF name = "simple_bind_s" /\ r.ran /\ r.out.kind = "return"
              THEN Param(args, kwargs, 1, "who", PyStr(<<>>))
              ELSE IF name \in {"unbind", "unbind_s"} /\ r.ran THEN None
              ELSE expected_bound
        /\ UNCHANGED <<passlib, seeded>>

(* The caller registers a seed for the method name of obj. *)
Seed(name, args, kwargs, value) ==
    LET r == set_return_value(obj, heap, name, args, kwargs, value)
    IN  /\ obj' = r.obj
        /\ heap' = r.heap
        /\ seeded' = Append(seeded, [name |-> name,
                                     sig |-> _call_repr(heap, name, args, kwargs),
                                     value |-> Resolve(value, heap)])
        /\ UNCHANGED <<held, passlib, last, invoked, trace, expected_bound>>

InitCaller ==
    /\ last = NoCall
    /\ seeded = <<>>
    /\ invoked = <<>>
    /\ trace = <<>>
    /\ expected_bound = None

----------------------------------------------------------------------------
(* SpecBind: a client over one entry, and a caller that binds and unbinds. *)

BindEntries ==
    {[a \in {attr_cn} |-> <<val_a>>],
     [a \in {userPassword} |-> <<pw1>>],
     [a \in {userPassword} |-> <<pw1, pw2>>],
     [a \in {userPassword} |-> <<Md5Crypt(pw2)>>]}

BindDirectories ==
    {EmptyDict} \cup {[dn \in {dn_alice} |-> e] : e \in BindEntries}

BindWho == {<<>>, dn_Alice, dn_missing}
BindCred == {<<>>, pw1, pw2}

InitBind ==
    /\ \E d \in BindDirectories : obj = LDAPObject(d)
    /\ heap = [a \in Addr |-> Free]
    /\ held = {}
    /\ passlib \in BOOLEAN
    /\ InitCaller

CallsLeft(max) == Len(obj._recorded_calls_internal) < max

BindAnonymous ==
    /\ CallsLeft(MaxBindCalls)
    /\ Invoke("simple_bind_s", <<>>, <<>>)

Bind ==
    /\ CallsLeft(MaxBindCalls)
    /\ \E who \in BindWho, cred \in BindCred :
          Invoke("simple_bind_s", <<PyStr(who), PyStr(cred)>>, <<>>)

Unbind ==
    /\ CallsLeft(MaxBindCalls)
    /\ Invoke("unbind", <<>>, <<>>)

UnbindS ==
    /\ CallsLeft(MaxBindCalls)
    /\ Invoke("unbind_s", <<>>, <<>>)

NextBind == BindAnonymous \/ Bind \/ Unbind \/ UnbindS

SpecBind == InitBind /\ [][NextBind]_vars

----------------------------------------------------------------------------
(* SpecRead: a client over a small tree, and a caller that compares and    *)
(* searches.                                                               *)

ReadAliceEntries ==
    {[a \in {attr_cn} |-> <<val_a>>],
     [a \in {attr_cn, userPassword} |->
         IF a = attr_cn THEN <<val_a>> ELSE <<pw1, Md5Crypt(pw2)>>],
     [a \in {attr_cn, attr_sn} |-> IF a = attr_cn THEN <<>> ELSE <<val_a>>]}

ReadTestEntries ==
    {EmptyDict, [a \in {attr_o} |-> <<val_t>>]}

ReadDirectories ==
    {EmptyDict}
    \cup {[dn \in {dn_test, dn_example, dn_alice} |->
              IF dn = dn_test THEN t
              ELSE IF dn = dn_example THEN [a \in {attr_ou} |-> <<val_e>>]
              ELSE e] : t \in ReadTestEntries, e \in ReadAliceEntries}

CompareDn == {dn_Alice, dn_missing}
CompareAttr == {attr_cn, attr_sn, userPassword}
CompareValue == {val_a, pw1, pw2}

SearchBase == {dn_test, dn_example, dn_alice, dn_missing}
SearchScope == {SCOPE_BASE, SCOPE_ONELEVEL, SCOPE_SUBTREE}
SearchFilterstr == {filter_cn_a, filter_cn_any, filter_sn_any, filter_approx,
                    filter_wildcard, filter_o_t}

InitRead ==
    /\ \E d \in ReadDirectories : obj = LDAPObject(d)
    /\ heap = [a \in Addr |-> Free]
    /\ held = {}
    /\ passlib \in BOOLEAN
    /\ InitCaller

Compare ==
    /\ CallsLeft(MaxReadCalls)
    /\ \E dn \in CompareDn, attr \in CompareAttr, value \in CompareValue :
          Invoke("compare_s", <<PyStr(dn), PyStr(attr), PyStr(value)>>, <<>>)

Search ==
    /\ CallsLeft(MaxReadCalls)
    /\ \E base \in SearchBase, scope \in SearchScope, filterstr \in SearchFilterstr :
          Invoke("search_s", <<PyStr(base), PyInt(scope), PyStr(filterstr)>>, <<>>)

NextRead == Compare \/ Search

SpecRead == InitRead /\ [][NextRead]_vars

(* SpecBindPlain: SpecBind where passlib is not installed. *)
InitBindPlain == InitBind /\ passlib = FALSE

SpecBindPlain == InitBindPlain /\ [][NextBind]_vars

----------------------------------------------------------------------------
(* SpecRecording: a caller that seeds search_s with results and with       *)
(* exceptions, and calls it.                                               *)

RecDirectory ==
    [dn \in {dn_example, dn_alice} |->
        IF dn = dn_example THEN [a \in {attr_ou} |-> <<val_e>>]
        ELSE [a \in {attr_cn} |-> <<val_a>>]]

(* The caller's two lists, in cells 1 and 2 of the heap *)
AttrlistRef == Ref(1)
ResultsRef == Ref(2)

(* The ways the caller writes the arguments of a search: all positional,   *)
(* with keywords, with a list written out in place of its own list, and a  *)
(* search the implementation can do.                                       *)
ArgsPositional == <<PyStr(dn_example), PyInt(SCOPE_ONELEVEL), PyStr(filter_wildcard), AttrlistRef>>
ArgsKeyword == <<PyStr(dn_example), PyInt(SCOPE_ONELEVEL)>>
KwargsKeyword == <<<<"attrlist", AttrlistRef>>, <<"filterstr", PyStr(filter_wildcard)>>>>
ArgsLiteral == <<PyStr(dn_example), PyInt(SCOPE_ONELEVEL), PyStr(filter_wildcard), PyList(<<attr_cn>>)>>
ArgsPlain == <<PyStr(dn_example), PyInt(SCOPE_ONELEVEL), PyStr(filter_cn_a)>>

SeedSignatures == {<<ArgsPositional, <<>>>>, <<ArgsKeyword, KwargsKeyword>>}
CallSignatures == SeedSignatures \cup {<<ArgsLiteral, <<>>>>, <<ArgsPlain, <<>>>>}
SeedValues == {ResultsRef, ExcInstance("NO_SUCH_OBJECT"), ExcClass("INVALID_CREDENTIALS")}

InitRecording ==
    /\ obj = LDAPObject(RecDirectory)
    /\ heap = [a \in Addr |->
                 IF a = 1 THEN PyList(<<attr_cn>>)
                 ELSE IF a = 2 THEN PyList(<<<<dn_alice, RecDirectory[dn_alice]>>>>)
                 ELSE Free]
    /\ held = {1, 2}
    /\ passlib = FALSE
    /\ InitCaller

SeedSearch ==
    /\ Len(seeded) < MaxSeeds
    /\ \E sig \in SeedSignatures, value \in SeedValues :
          Seed("search_s", sig[1], sig[2], value)

CallSearch ==
    /\ CallsLeft(MaxRecCalls)
    /\ \E sig \in CallSignatures : Invoke("search_s", sig[1], sig[2])

NextRecording == SeedSearch \/ CallSearch

SpecRecording == InitRecording /\ [][NextRecording]_vars

----------------------------------------------------------------------------
(* SpecCopy: the caller of SpecRecording, who now also changes the lists   *)
(* it holds: the list it passes as attrlist, the list of results it seeds, *)
(* and the lists it gets back.                                             *)

SeedCopy ==
    /\ Len(seeded) < MaxCopySeeds
    /\ Seed("search_s", ArgsPositional, <<>>, ResultsRef)

CallCopy ==
    /\ CallsLeft(MaxCopyCalls)
    /\ \E args \in {ArgsPositional, ArgsLiteral} : Invoke("search_s", args, <<>>)

(* The caller changes a list it holds: l.append(l[0]), or l.pop() once the *)
(* list has two elements.                                                  *)
Mutate ==
    \E a \in held :
        /\ heap[a].t = "list"
        /\ heap[a].v # <<>>
        /\ heap' = [heap EXCEPT ![a] =
                       PyList(IF Len(@.v) >= 2 THEN SubSeq(@.v, 1, Len(@.v) - 1)
                              ELSE Append(@.v, @.v[1]))]
        /\ UNCHANGED <<obj, held, passlib, last, seeded, invoked, trace, expected_bound>>

NextCopy == SeedCopy \/ CallCopy \/ Mutate

SpecCopy == InitRecording /\ [][NextCopy]_vars


----------------------------------------------------------------------------
(* SpecFilter: a client over a small tree with two people, and a caller    *)
(* that searches it with composite filters, with simple filters and with   *)
(* texts that are no filters.                                              *)

FilterPerson(cn, sn) ==
    [a \in {attr_cn, attr_sn, attr_ou} |->
        IF a = attr_cn THEN <<cn>> ELSE IF a = attr_sn THEN <<sn>> ELSE <<val_e>>]

FilterDirectories ==
    {[dn \in {dn_test, dn_example, dn_alice, dn_bob} |->
         IF dn = dn_test THEN [a \in {attr_o} |-> <<val_t>>]
         ELSE IF dn = dn_example THEN [a \in {attr_ou} |-> <<val_e>>]
         ELSE IF dn = dn_alice THEN FilterPerson(val_a, sn)
         ELSE FilterPerson(val_b, val_b)] : sn \in {val_b, val_c}}

CompositeFilters ==
    {Not(Test(test_cn_a)),
     And(<<Test(test_cn_any), Test(test_sn_b), Test(test_ou_e)>>),
     And(<<Test(test_cn_a), Test(test_zz_y)>>),
     Or(<<Test(test_cn_a), Test(test_zz_y), Test(test_sn_b)>>),
     Or(<<Test(test_cn_a), Test(test_cn_b)>>),
     And(<<Or(<<Test(test_cn_a), Test(test_cn_b)>>), Test(test_sn_b)>>)}

FilterBase == {dn_test, dn_example, dn_alice}

FilterFilterstr ==
    {unparse(f) : f \in CompositeFilters}
    \cup {filter_cn_a, filter_cn_any, filter_bare, filter_empty_value}

InitFilter ==
    /\ \E d \in FilterDirectories : obj = LDAPObject(d)
    /\ heap = [a \in Addr |-> Free]
    /\ held = {}
    /\ passlib = TRUE
    /\ InitCaller

SearchFilter ==
    /\ CallsLeft(MaxReadCalls)
    /\ \E base \in FilterBase, scope \in SearchScope, filterstr \in FilterFilterstr :
          Invoke("search_s", <<PyStr(base), PyInt(scope), PyStr(filterstr)>>, <<>>)

SpecFilter == InitFilter /\ [][SearchFilter]_vars

----------------------------------------------------------------------------
(* SpecScope: a client over a tree, and a caller that searches it from     *)
(* bases that are entries, that are entries written in capitals, and that  *)
(* are no entries.  Beside the plain tree there is one with an entry co=t, *)
(* whose text ends with the text of o=t, and one with an entry whose first *)
(* component has two values.  Every entry has a cn and an sn.              *)

ScopeEntry(sn) == [a \in {attr_cn, attr_sn} |-> IF a = attr_cn THEN <<val_a>> ELSE <<sn>>]

ScopeDirectories ==
    {[dn \in {dn_test, dn_example, dn_alice} |->
         IF dn = dn_alice THEN ScopeEntry(val_b) ELSE ScopeEntry(val_c)],
     [dn \in {dn_test, dn_example, dn_alice, dn_cot} |->
         IF dn \in {dn_alice, dn_cot} THEN ScopeEntry(val_b) ELSE ScopeEntry(val_c)],
     [dn \in {dn_test, dn_example, dn_multi, dn_under_cot} |->
         IF dn \in {dn_multi, dn_under_cot} THEN ScopeEntry(val_b) ELSE ScopeEntry(val_c)]}

ScopeBase == {dn_test, dn_TEST, dn_example, dn_alice, dn_missing, dn_sn_b}

ScopeFilterstr == {filter_cn_any, filter_sn_b}

InitScope ==
    /\ \E d \in ScopeDirectories : obj = LDAPObject(d)
    /\ heap = [a \in Addr |-> Free]
    /\ held = {}
    /\ passlib = TRUE
    /\ InitCaller

SearchScoped ==
    /\ CallsLeft(MaxReadCalls)
    /\ \E base \in ScopeBase, scope \in SearchScope, filterstr \in ScopeFilterstr :
          Invoke("search_s", <<PyStr(base), PyInt(scope), PyStr(filterstr)>>, <<>>)

SpecScope == InitScope /\ [][SearchScoped]_vars

----------------------------------------------------------------------------
(* SpecPair: a client over the plain tree, and a caller that searches it   *)
(* more than once, with scope BASE and with scope SUBTREE, with and        *)
(* without a list of attributes and the attributes-only flag.              *)

PairDirectory ==
    [dn \in {dn_test, dn_example, dn_alice} |->
        IF dn = dn_alice THEN ScopeEntry(val_b) ELSE ScopeEntry(val_c)]

PairBase == {dn_test, dn_TEST, dn_alice}
PairScope == {SCOPE_BASE, SCOPE_SUBTREE}
PairFilterstr == {filter_cn_any, filter_sn_b}
PairProjection == {<<None, PyInt(0)>>, <<PyList(<<attr_cn>>), PyInt(0)>>, <<None, PyInt(1)>>}

InitPair ==
    /\ obj = LDAPObject(PairDirectory)
    /\ heap = [a \in Addr |-> Free]
    /\ held = {}
    /\ passlib = TRUE
    /\ InitCaller

SearchPair ==
    /\ CallsLeft(MaxPairCalls)
    /\ \E base \in PairBase, scope \in PairScope, filterstr \in PairFilterstr,
          proj \in PairProjection :
          Invoke("search_s", <<PyStr(base), PyInt(scope), PyStr(filterstr),
                               proj[1], proj[2]>>, <<>>)

SpecPair == InitPair /\ [][SearchPair]_vars

----------------------------------------------------------------------------
(* SpecProject: a client over the plain tree, and a caller that searches   *)
(* it with a list of attributes, which may be empty, may name attributes   *)
(* the entries lack and may write a name in capitals, and with the         *)
(* attributes-only flag.                                                   *)

attr_CN == <<"C", "N">>

ProjectDirectories ==
    {[dn \in {dn_test, dn_example, dn_alice} |->
         IF dn = dn_alice THEN ScopeEntry(sn) ELSE ScopeEntry(val_c)] : sn \in {val_b, val_c}}

ProjectBase == {dn_test, dn_example, dn_alice}
ProjectAttrlist ==
    {None, PyList(<<>>), PyList(<<attr_cn>>), PyList(<<attr_sn, attr_zz>>),
     PyList(<<attr_zz>>), PyList(<<attr_CN>>)}
ProjectAttrsonly == {0, 1}

InitProject ==
    /\ \E d \in ProjectDirectories : obj = LDAPObject(d)
    /\ heap = [a \in Addr |-> Free]
    /\ held = {}
    /\ passlib = TRUE
    /\ InitCaller

SearchProject ==
    /\ CallsLeft(MaxReadCalls)
    /\ \E base \in ProjectBase, scope \in PairScope, attrlist \in ProjectAttrlist,
          attrsonly \in ProjectAttrsonly :
          Invoke("search_s", <<PyStr(base), PyInt(scope), PyStr(filter_cn_any)>>,
                 <<<<"attrlist", attrlist>>, <<"attrsonly", PyInt(attrsonly)>>>>)

SpecProject == InitProject /\ [][SearchProject]_vars

----------------------------------------------------------------------------
(* SpecAsync: a client over the plain tree, and a caller that starts       *)
(* searches, fetches their results by msgid, also twice and by msgids that *)
(* were never given out, and adds and deletes entries in between.          *)

AsyncBase == {dn_example, dn_missing}
AsyncMsgid == {-1, 0, 1}

record_bob == PyList(<<<<attr_cn, <<val_b>>>>, <<attr_sn, <<val_b>>>>>>)

InitAsync ==
    /\ obj = LDAPObject(PairDirectory)
    /\ heap = [a \in Addr |-> Free]
    /\ held = {}
    /\ passlib = TRUE
    /\ InitCaller

AsyncSearch ==
    /\ CallsLeft(MaxAsyncCalls)
    /\ \E base \in AsyncBase, scope \in PairScope :
          Invoke("search", <<PyStr(base), PyInt(scope), PyStr(filter_cn_any)>>, <<>>)

AsyncResult ==
    /\ CallsLeft(MaxAsyncCalls)
    /\ \E msgid \in AsyncMsgid : Invoke("result", <<PyInt(msgid)>>, <<>>)

AsyncAdd ==
    /\ CallsLeft(MaxAsyncCalls)
    /\ Invoke("add_s", <<PyStr(dn_bob), record_bob>>, <<>>)

AsyncDelete ==
    /\ CallsLeft(MaxAsyncCalls)
    /\ Invoke("delete_s", <<PyStr(dn_alice)>>, <<>>)

NextAsync == AsyncSearch \/ AsyncResult \/ AsyncAdd \/ AsyncDelete

SpecAsync == InitAsync /\ [][NextAsync]_vars

----------------------------------------------------------------------------
(* SpecStore: a client over the plain tree or over nothing, and a caller   *)
(* that adds and deletes entries, also ones that exist and ones that do    *)
(* not, also written in capitals.                                          *)

dn_BOB == <<"C","N","=","B",",","O","U","=","E",",","O","=","T">>

record_cn == PyList(<<<<attr_cn, <<val_a, val_b>>>>>>)

StoreDirectories == {EmptyDict, PairDirectory}
StoreAddDn == {dn_bob, dn_Alice}
StoreRecord == {record_bob, record_cn}
StoreDeleteDn == {dn_bob, dn_BOB, dn_alice}

InitStore ==
    /\ \E d \in StoreDirectories : obj = LDAPObject(d)
    /\ heap = [a \in Addr |-> Free]
    /\ held = {}
    /\ passlib = TRUE
    /\ InitCaller

Add ==
    /\ CallsLeft(MaxStoreCalls)
    /\ \E dn \in StoreAddDn, record \in StoreRecord :
          Invoke("add_s", <<PyStr(dn), record>>, <<>>)

Delete ==
    /\ CallsLeft(MaxStoreCalls)
    /\ \E dn \in StoreDeleteDn : Invoke("delete_s", <<PyStr(dn)>>, <<>>)

NextStore == Add \/ Delete

SpecStore == InitStore /\ [][NextStore]_vars

----------------------------------------------------------------------------
(* SpecModify: a client over two entries, and a caller that modifies an    *)
(* entry: it replaces, adds and deletes values of attributes the entry has *)
(* and has not, with no value, one value and a list of values.             *)

ModifyEntry == [a \in {attr_cn, attr_sn} |-> IF a = attr_cn THEN <<val_a>> ELSE <<val_b, val_c>>]

ModifyDirectory == [dn \in {dn_test, dn_alice} |-> ModifyEntry]

ModifyDn == {dn_alice, dn_missing}
ReplaceArgs == {<<attr_cn, None>>, <<attr_cn, PyList(<<>>)>>, <<attr_cn, PyStr(val_b)>>,
                <<attr_sn, PyList(<<val_a, val_e>>)>>, <<attr_zz, PyStr(val_a)>>}
AddArgs == {<<attr_sn, None>>, <<attr_sn, PyStr(val_a)>>, <<attr_sn, PyStr(val_b)>>,
            <<attr_sn, PyList(<<val_c, val_a>>)>>}
DeleteArgs == {<<attr_sn, None>>, <<attr_sn, PyStr(val_b)>>, <<attr_sn, PyList(<<val_c>>)>>}

InitModify ==
    /\ obj = LDAPObject(ModifyDirectory)
    /\ heap = [a \in Addr |-> Free]
    /\ held = {}
    /\ passlib = TRUE
    /\ InitCaller

Modify(dn, mod_attrs) == Invoke("modify_s", <<PyStr(dn), PyList(mod_attrs)>>, <<>>)

Replace ==
    /\ CallsLeft(MaxModifyCalls)
    /\ \E dn \in ModifyDn, m \in ReplaceArgs : Modify(dn, <<<<MOD_REPLACE, m[1], m[2]>>>>)

AddValues ==
    /\ CallsLeft(MaxModifyCalls)
    /\ \E m \in AddArgs : Modify(dn_alice, <<<<MOD_ADD, m[1], m[2]>>>>)

DeleteValues ==
    /\ CallsLeft(MaxModifyCalls)
    /\ \E m \in DeleteArgs : Modify(dn_alice, <<<<MOD_DELETE, m[1], m[2]>>>>)

(* A replacement and an addition in one call *)
ReplaceThenAdd ==
    /\ CallsLeft(MaxModifyCalls)
    /\ Modify(dn_alice, <<<<MOD_REPLACE, attr_cn, PyList(<<val_e>>)>>,
                          <<MOD_ADD, attr_sn, PyStr(val_a)>>>>)

(* Two replacements, an addition or a deletion between them or after them *)
ReplaceInTurn ==
    /\ CallsLeft(MaxModifyCalls)
    /\ \E op \in {MOD_ADD, MOD_DELETE}, at \in {2, 3} :
          LET between == <<op, attr_sn, PyList(<<val_b>>)>>
              first == <<MOD_REPLACE, attr_cn, PyList(<<val_e>>)>>
              second == <<MOD_REPLACE, attr_sn, PyList(<<val_a>>)>>
          IN  Modify(dn_alice, IF at = 2 THEN <<first, between, second>>
                               ELSE <<first, second, between>>)

NextModify == Replace \/ AddValues \/ DeleteValues \/ ReplaceThenAdd \/ ReplaceInTurn

SpecModify == InitModify /\ [][NextModify]_vars

----------------------------------------------------------------------------
(* SpecRename: a client over three entries, and a caller that renames      *)
(* entries that exist and that do not, to a name of the same and of        *)
(* another attribute, with and without a new parent.                       *)

rdn_cn_b == <<"c","n","=","b">>  \* cn=b
rdn_cn_a == <<"c","n","=","a">>  \* cn=a
rdn_sn_e == <<"s","n","=","e">>  \* sn=e
rdn_zz_b == <<"z","z","=","b">>  \* zz=b
rdn_o_e == <<"o","=","e">>  \* o=e
dn_invalid == <<"i","n","v","a","l","i","d">>  \* invalid

RenameDirectory == [dn \in {dn_test, dn_alice, dn_sn_b} |-> ModifyEntry]

RenameDn == {dn_alice, dn_sn_b, dn_test, dn_missing, dn_bob}
RenameRdn == {rdn_cn_b, rdn_cn_a, rdn_sn_e, rdn_zz_b, rdn_o_e, dn_invalid}
RenameSuperior == {dn_test}

InitRename ==
    /\ obj = LDAPObject(RenameDirectory)
    /\ heap = [a \in Addr |-> Free]
    /\ held = {}
    /\ passlib = TRUE
    /\ InitCaller

Rename ==
    /\ CallsLeft(MaxRenameCalls)
    /\ \E dn \in RenameDn, newrdn \in RenameRdn :
          Invoke("rename_s", <<PyStr(dn), PyStr(newrdn)>>, <<>>)

RenameUnder ==
    /\ CallsLeft(MaxRenameCalls)
    /\ \E dn \in {dn_alice, dn_missing}, newsuperior \in RenameSuperior :
          Invoke("rename_s", <<PyStr(dn), PyStr(rdn_cn_b), PyStr(newsuperior)>>, <<>>)

NextRename == Rename \/ RenameUnder

SpecRename == InitRename /\ [][NextRename]_vars

----------------------------------------------------------------------------
(* SpecDn: a client over two entries, and a caller that hands each         *)
(* operation that takes a dn one that is well formed and one that is not.  *)

DnEntry == [a \in {attr_cn, userPassword} |-> IF a = attr_cn THEN <<val_a>> ELSE <<pw1>>]

DnDirectory == [dn \in {dn_test, dn_alice} |-> DnEntry]

DnArg == {dn_invalid, dn_alice}
DnRenameArgs == {<<dn_invalid, rdn_cn_b>>, <<dn_alice, dn_invalid>>, <<dn_alice, rdn_cn_b>>,
                 <<dn_alice, rdn_cn_b, dn_invalid>>}

InitDn ==
    /\ obj = LDAPObject(DnDirectory)
    /\ heap = [a \in Addr |-> Free]
    /\ held = {}
    /\ passlib = TRUE
    /\ InitCaller

DnBind ==
    /\ CallsLeft(MaxDnCalls)
    /\ \E dn \in DnArg : Invoke("simple_bind_s", <<PyStr(dn), PyStr(pw1)>>, <<>>)

DnCompare ==
    /\ CallsLeft(MaxDnCalls)
    /\ \E dn \in DnArg : Invoke("compare_s", <<PyStr(dn), PyStr(attr_cn), PyStr(val_a)>>, <<>>)

DnModify ==
    /\ CallsLeft(MaxDnCalls)
    /\ \E dn \in DnArg :
          Invoke("modify_s", <<PyStr(dn), PyList(<<<<MOD_REPLACE, attr_cn, PyList(<<val_b>>)>>>>)>>,
                 <<>>)

DnAdd ==
    /\ CallsLeft(MaxDnCalls)
    /\ \E dn \in DnArg : Invoke("add_s", <<PyStr(dn), record_bob>>, <<>>)

DnDelete ==
    /\ CallsLeft(MaxDnCalls)
    /\ \E dn \in DnArg : Invoke("delete_s", <<PyStr(dn)>>, <<>>)

DnSearch ==
    /\ CallsLeft(MaxDnCalls)
    /\ \E base \in DnArg, scope \in {SCOPE_BASE, SCOPE_SUBTREE} :
          Invoke("search_s", <<PyStr(base), PyInt(scope), PyStr(filter_cn_any)>>, <<>>)

DnRename ==
    /\ CallsLeft(MaxDnCalls)
    /\ \E dns \in DnRenameArgs :
          Invoke("rename_s", [i \in 1..Len(dns) |-> PyStr(dns[i])], <<>>)

NextDn == DnBind \/ DnCompare \/ DnModify \/ DnAdd \/ DnDelete \/ DnSearch \/ DnRename

SpecDn == InitDn /\ [][NextDn]_vars

----------------------------------------------------------------------------
(* SpecRegistry: obj is a MockLdap, made with default content or without,  *)
(* and the caller sets content for a URI, starts and stops paths, also     *)
(* ones that are patched, that are not and that cannot be, looks clients   *)
(* up, connects through a patched path, and adds an entry to a client.     *)

uri_a == "ldap://a"
uri_b == "ldap://b"
path_nothing == "ldap.nothing"

RegDefault == [dn \in {dn_test, dn_Alice} |-> ModifyEntry]
RegOwn == [dn \in {dn_test} |-> DnEntry]

RegDirectory == {None, PyDict(RegDefault)}
RegPaths == Patchable \cup {path_nothing}
RegUris == {uri_a, uri_b}

Clients(hp) == {a \in Addr : hp[a].t = "LDAPObject"}

(* The heap without the clients that the table has no reference to: the   *)
(* caller keeps none, it asks the MockLdap for the client each time.       *)
InTable(m, a) ==
    m.ldap_objects # None /\ \E uri \in DOMAIN m.ldap_objects.v : m.ldap_objects.v[uri] = Ref(a)
Collect(m, hp) == [a \in Addr |-> IF InTable(m, a) THEN hp[a] ELSE Free]

(* Room for n more clients *)
ClientsLeft(n) == Cardinality(Clients(heap)) + n <= MaxClients

(* The table has a client for the URI *)
Known(uri) == obj.ldap_objects # None /\ uri \in DOMAIN obj.ldap_objects.v

(* The client in cell a takes another call *)
ClientCallsLeft(a) == Len(heap[a].v._recorded_calls_internal) < MaxClientCalls

InitRegistry ==
    /\ \E directory \in RegDirectory : obj = MockLdap(directory)
    /\ heap = [a \in Addr |-> Free]
    /\ held = {}
    /\ passlib = TRUE
    /\ InitCaller

(* The caller notes the call and what it got. *)
RegCalled(name, args, out) ==
    /\ last' = [NoCall EXCEPT !.name = name, !.args = args, !.out = out]
    /\ UNCHANGED <<passlib, seeded, invoked, trace, expected_bound>>

SetDirectory ==
    LET r == set_directory(obj, RegOwn, uri_a)
    IN  /\ obj' = r.obj
        /\ RegCalled("set_directory", <<uri_a>>, r.out)
        /\ UNCHANGED <<heap, held>>

Start ==
    /\ obj.ldap_objects = None => ClientsLeft(Cardinality(DOMAIN obj.directories))
    /\ \E path \in RegPaths :
          LET r == start(obj, heap, path)
          IN  /\ obj' = r.obj
              /\ heap' = Collect(r.obj, r.heap)
              /\ RegCalled("start", <<path>>, r.out)
              /\ UNCHANGED held

Stop ==
    \E path \in RegPaths :
        LET r == stop(obj, path)
        IN  /\ obj' = r.obj
            /\ heap' = Collect(r.obj, heap)
            /\ RegCalled("stop", <<path>>, r.out)
            /\ UNCHANGED held

StopAll ==
    LET r == stop_all(obj)
    IN  /\ obj' = r.obj
        /\ heap' = Collect(r.obj, heap)
        /\ RegCalled("stop_all", <<>>, r.out)
        /\ UNCHANGED held

(* mockldap[uri] *)
Lookup ==
    \E uri \in RegUris :
        /\ Known(uri) \/ ClientsLeft(1)
        /\ LET r == __getitem__(obj, heap, uri)
           IN /\ obj' = r.obj
              /\ heap' = r.heap
              /\ RegCalled("__getitem__", <<uri>>, r.out)
              /\ UNCHANGED held

(* A call of the attribute a patched path names, which is initialize *)
Connect ==
    /\ obj.patchers # {}
    /\ \E uri \in RegUris :
          /\ IF Known(uri) THEN ClientCallsLeft(obj.ldap_objects.v[uri].v) ELSE ClientsLeft(1)
          /\ \E r \in initialize(obj, heap, uri) :
                /\ obj' = r.obj
                /\ heap' = r.heap
                /\ RegCalled("initialize", <<uri>>, r.out)
                /\ UNCHANGED held

(* The caller adds an entry to a client of the table: mockldap[uri].add_s *)
ClientCall ==
    \E a \in {obj.ldap_objects.v[uri].v : uri \in {u \in RegUris : Known(u)}} :
        /\ ClientCallsLeft(a)
        /\ \E r \in RecordedMethod_call(heap[a].v, heap, "add_s",
                                         <<PyStr(dn_bob), record_bob>>, <<>>) :
              /\ heap' = [r.heap EXCEPT ![a] = Client(r.obj)]
              /\ RegCalled("add_s", <<PyStr(dn_bob), record_bob>>, r.out)
              /\ UNCHANGED <<obj, held>>

NextRegistry ==
    SetDirectory \/ Start \/ Stop \/ StopAll \/ Lookup \/ Connect \/ ClientCall

SpecRegistry == InitRegistry /\ [][NextRegistry]_vars

----------------------------------------------------------------------------
(* SpecClients: a MockLdap with default content, started, and a caller     *)
(* that connects to two URIs, which gives two clients made from the same   *)
(* content, and adds, modifies, renames and deletes entries of the one and *)
(* the other and seeds them.                                               *)

ClientWrites ==
    {<<"add_s", <<PyStr(dn_bob), record_bob>>>>,
     <<"modify_s", <<PyStr(dn_alice), PyList(<<<<MOD_REPLACE, attr_cn, PyList(<<val_e>>)>>>>)>>>>,
     <<"rename_s", <<PyStr(dn_alice), PyStr(rdn_sn_e)>>>>,
     <<"delete_s", <<PyStr(dn_test)>>>>}

(* The calls made of the clients of the table and the seeds they have *)
WritesMade ==
    LET n[S \in SUBSET DOMAIN obj.ldap_objects.v] ==
            IF S = {} THEN 0
            ELSE LET u == CHOOSE x \in S : TRUE
                 IN  Len(SelectSeq(heap[obj.ldap_objects.v[u].v].v._recorded_calls_internal,
                                   LAMBDA c : c[1] # "initialize")) + n[S \ {u}]
    IN  n[DOMAIN obj.ldap_objects.v]

SeedsMade ==
    Cardinality({u \in DOMAIN obj.ldap_objects.v :
                    heap[obj.ldap_objects.v[u].v].v._seeded_calls_internal["delete_s"] # <<>>})

InitClients ==
    /\ obj = MockLdap(PyDict(RegDefault))
    /\ heap = [a \in Addr |-> Free]
    /\ held = {}
    /\ passlib = TRUE
    /\ InitCaller

(* The caller notes the call and the URI of the client it made it of. *)
ClientCalled(name, uri, args, out) ==
    /\ last' = [NoCall EXCEPT !.name = name, !.sig = uri, !.args = args, !.out = out]
    /\ UNCHANGED <<held, passlib, seeded, invoked, trace, expected_bound>>

ClientsStart ==
    /\ obj.ldap_objects = None
    /\ LET r == start(obj, heap, "ldap.initialize")
       IN  /\ obj' = r.obj
           /\ heap' = r.heap
           /\ ClientCalled("start", <<>>, <<>>, r.out)

ClientsConnect ==
    /\ obj.patchers # {}
    /\ \E uri \in RegUris :
          /\ ~Known(uri)
          /\ \E r \in initialize(obj, heap, uri) :
                /\ obj' = r.obj
                /\ heap' = r.heap
                /\ ClientCalled("initialize", uri, <<>>, r.out)

(* mockldap[uri].add_s(...) and the like.  Where the entries of the store  *)
(* are objects other stores or the content hold as well, what is written   *)
(* in place is seen there.                                                 *)
ClientWrite ==
    /\ obj.ldap_objects # None
    /\ WritesMade < MaxClientWrites
    /\ \E uri \in {u \in RegUris : Known(u)}, call \in ClientWrites :
          LET a == obj.ldap_objects.v[uri].v
              o == heap[a].v
          IN  \E r \in RecordedMethod_call(o, heap, call[1], call[2], <<>>) :
                 LET written == IF o.entries_shared /\ r.ran
                                THEN WrittenInPlace(call[1], _record(o, call[1], call[2], <<>>),
                                                    call[2], r.obj)
                                ELSE <<>>
                 IN  /\ heap' = [b \in Addr |->
                                   IF b = a THEN Client(r.obj)
                                   ELSE IF r.heap[b].t = "LDAPObject" /\ r.heap[b].v.entries_shared
                                   THEN Client([r.heap[b].v EXCEPT
                                                   !.directory = SeenIn(@, written)])
                                   ELSE r.heap[b]]
                     /\ obj' = [obj EXCEPT !.directories =
                                   [u \in DOMAIN @ |-> SeenIn(@[u], written)]]
                     /\ ClientCalled(call[1], uri, call[2], r.out)

(* mockldap[uri].delete_s.seed(dn)(ldap.NO_SUCH_OBJECT) *)
ClientSeed ==
    /\ obj.ldap_objects # None
    /\ SeedsMade < MaxClientSeeds
    /\ \E uri \in {u \in RegUris : Known(u)} :
          LET a == obj.ldap_objects.v[uri].v
              r == set_return_value(heap[a].v, heap, "delete_s", <<PyStr(dn_test)>>, <<>>,
                                    ExcClass("NO_SUCH_OBJECT"))
          IN  /\ heap[a].v._seeded_calls_internal["delete_s"] = <<>>
              /\ heap' = [r.heap EXCEPT ![a] = Client(r.obj)]
              /\ obj' = obj
              /\ ClientCalled("seed", uri, <<>>, Return(None))

NextClients == ClientsStart \/ ClientsConnect \/ ClientWrite \/ ClientSeed

SpecClients == InitClients /\ [][NextClients]_vars

----------------------------------------------------------------------------
(* SpecUnique: a client over two entries, one with a dn in capitals, and a *)
(* caller that adds, modifies, renames, deletes and compares entries,      *)
(* writing each dn in one letter case and another.                         *)

rdn_CN_A == <<"C","N","=","A">>  \* CN=A
rdn_CN_B == <<"C","N","=","B">>  \* CN=B

UniqueDirectory == [dn \in {dn_test, dn_Alice} |-> ModifyEntry]

UniqueAddDn == {dn_alice, dn_bob}
UniqueDn == {dn_alice, dn_BOB}
UniqueRdn == {rdn_CN_A, rdn_CN_B}

InitUnique ==
    /\ obj = LDAPObject(UniqueDirectory)
    /\ heap = [a \in Addr |-> Free]
    /\ held = {}
    /\ passlib = TRUE
    /\ InitCaller

UniqueAdd ==
    /\ CallsLeft(MaxUniqueCalls)
    /\ \E dn \in UniqueAddDn : Invoke("add_s", <<PyStr(dn), record_bob>>, <<>>)

UniqueModify ==
    /\ CallsLeft(MaxUniqueCalls)
    /\ \E dn \in {dn_alice} :
          Invoke("modify_s", <<PyStr(dn), PyList(<<<<MOD_REPLACE, attr_sn,
                                                    PyList(<<val_a, val_e>>)>>>>)>>, <<>>)

UniqueRename ==
    /\ CallsLeft(MaxUniqueCalls)
    /\ \E dn \in UniqueDn, newrdn \in UniqueRdn :
          Invoke("rename_s", <<PyStr(dn), PyStr(newrdn)>>, <<>>)

UniqueDelete ==
    /\ CallsLeft(MaxUniqueCalls)
    /\ \E dn \in UniqueDn : Invoke("delete_s", <<PyStr(dn)>>, <<>>)

UniqueCompare ==
    /\ CallsLeft(MaxUniqueCalls)
    /\ \E dn \in UniqueDn \cup {dn_TEST} :
          Invoke("compare_s", <<PyStr(dn), PyStr(attr_cn), PyStr(val_a)>>, <<>>)

NextUnique == UniqueAdd \/ UniqueModify \/ UniqueRename \/ UniqueDelete \/ UniqueCompare

SpecUnique == InitUnique /\ [][NextUnique]_vars

----------------------------------------------------------------------------
(* SpecReset: obj is a client of src/mockldap/ldap/ldapobject.py over two  *)
(* entries, and the caller presets return values of compare_s, calls it    *)
(* and resets the client.  seeded has the values preset since the last     *)
(* reset, and trace the calls and resets made.                             *)

ResetCompareArgs == {<<dn_alice, attr_cn, val_a>>, <<dn_missing, attr_cn, val_a>>}
ResetValues == {PyInt(0), ExcInstance("NO_SUCH_OBJECT")}

InitReset ==
    /\ obj = ldap_LDAPObject(ModifyDirectory)
    /\ heap = [a \in Addr |-> Free]
    /\ held = {}
    /\ passlib = TRUE
    /\ InitCaller

ResetStepsLeft == Len(trace) < MaxResetSteps

LegacySeed ==
    /\ Len(seeded) < MaxResetSeeds
    /\ \E value \in ResetValues :
          LET arguments == <<PyStr(dn_alice), PyStr(attr_cn), PyStr(val_a)>>
          IN  /\ obj' = ldap_set_return_value(obj, "compare_s", arguments, value)
              /\ seeded' = Append(seeded, [name |-> "compare_s", sig |-> arguments,
                                           value |-> value])
              /\ last' = [NoCall EXCEPT !.name = "set_return_value"]
              /\ UNCHANGED <<heap, held, passlib, invoked, trace, expected_bound>>

LegacyCompare ==
    /\ ResetStepsLeft
    /\ \E c \in ResetCompareArgs :
          LET r == ldap_compare_s(obj, c[1], c[2], c[3])
          IN  /\ obj' = r.obj
              /\ last' = [NoCall EXCEPT !.name = "compare_s", !.out = r.out, !.ran = r.ran,
                                        !.args = <<PyStr(c[1]), PyStr(c[2]), PyStr(c[3])>>]
              /\ trace' = Append(trace, [name |-> "compare_s", args |-> c, out |-> r.out,
                                         ran |-> r.ran])
              /\ UNCHANGED <<heap, held, passlib, seeded, invoked, expected_bound>>

Reset ==
    /\ ResetStepsLeft
    /\ obj' = ldap_reset(obj)
    /\ seeded' = <<>>
    /\ last' = [NoCall EXCEPT !.name = "reset"]
    /\ trace' = Append(trace, [name |-> "reset", args |-> <<>>, out |-> Return(None),
                               ran |-> FALSE])
    /\ UNCHANGED <<heap, held, passlib, invoked, expected_bound>>

NextReset == LegacySeed \/ LegacyCompare \/ Reset

SpecReset == InitReset /\ [][NextReset]_vars

----------------------------------------------------------------------------
(* SpecOptions: a caller that sets an option to a list it holds or to a    *)
(* number, reads options back, and changes the lists it holds.             *)

OptionKeys == {PyInt(1), PyInt(2)}
OptionValues == {AttrlistRef, PyInt(3)}

InitOptions ==
    /\ obj = LDAPObject(RecDirectory)
    /\ heap = [a \in Addr |-> IF a = 1 THEN PyList(<<attr_cn>>) ELSE Free]
    /\ held = {1}
    /\ passlib = FALSE
    /\ InitCaller

SetOption ==
    /\ CallsLeft(MaxOptionCalls)
    /\ \E invalue \in OptionValues : Invoke("set_option", <<PyInt(1), invalue>>, <<>>)

GetOption ==
    /\ CallsLeft(MaxOptionCalls)
    /\ \E option \in OptionKeys : Invoke("get_option", <<option>>, <<>>)

NextOptions == SetOption \/ GetOption \/ Mutate

SpecOptions == InitOptions /\ [][NextOptions]_vars

----------------------------------------------------------------------------
(* SpecRoundTrip: a text and an entry, and a caller that parses the text,  *)
(* unparses the tree, parses what that gives, and evaluates both trees on  *)
(* the entry.  The texts are filters of tests with plain and with escaped  *)
(* values, with a wildcard, with an operator that is not supported and     *)
(* with no operator, alone, in composites and in composites of composites, *)
(* and texts that are no filters.                                          *)

content_cn_a == <<"c", "n", "=", "a">>  \* cn=a
content_sn_b == <<"s", "n", "=", "b">>  \* sn=b
content_cn_any == <<"c", "n", "=", "*">>  \* cn=*
content_cn_star == <<"c", "n", "=", "\\", "2", "A">>  \* cn=\2A
content_cn_paren == <<"c", "n", "=", "\\", "2", "8">>  \* cn=\28
content_cn_bs61 == <<"c", "n", "=", "\\", "5", "c", "6", "1">>  \* cn=\5c61
content_cn_amp == <<"c", "n", "=", "a", "&", "b">>  \* cn=a&b
content_approx == <<"c", "n", "~", "=", "a">>  \* cn~=a
content_wildcard == <<"c", "n", "=", "a", "*", "b">>  \* cn=a*b
content_no_op == <<"c", "n">>  \* cn

val_bs61 == <<"\\", "6", "1">>  \* \61
val_paren == <<"(">>
val_a_amp_b == <<"a", "&", "b">>  \* a&b

RoundTripContents ==
    {content_cn_a, content_sn_b, content_cn_any, content_cn_star, content_cn_paren,
     content_cn_bs61, content_cn_amp, content_approx, content_wildcard, content_no_op}

RoundTripCore == {Test(content_cn_a), Test(content_sn_b), Test(content_cn_bs61)}

(* And, Or and Not over the filters of a set, And and Or with up to         *)
(* MaxTerms terms.                                                          *)
Composites(filters) ==
    {And(terms) : terms \in UNION {[1..n -> filters] : n \in 1..MaxTerms}}
    \cup {Or(terms) : terms \in UNION {[1..n -> filters] : n \in 1..MaxTerms}}
    \cup {Not(f) : f \in filters}

RoundTripInner == Composites(RoundTripCore)

RoundTripFilters ==
    {Test(c) : c \in RoundTripContents}
    \cup Composites({Test(c) : c \in RoundTripContents})
    \cup {Not(f) : f \in RoundTripInner}
    \cup {And(<<f, t>>) : f \in RoundTripInner, t \in RoundTripCore}
    \cup {Or(<<t, f>>) : f \in RoundTripInner, t \in RoundTripCore}

(* The text the caller writes for a filter *)
RECURSIVE Written(_)
Written(f) ==
    IF f.code = "TEST" THEN <<"(">> \o f.content \o <<")">>
    ELSE <<"(", CASE f.code = "AND" -> "&" [] f.code = "OR" -> "|" [] f.code = "NOT" -> "!">>
         \o Join([i \in 1..Len(f.terms) |-> Written(f.terms[i])]) \o <<")">>

(* Texts that are no filters: one without its last bracket, one without    *)
(* its first, two filters in a row, and a composite of nothing.            *)
RoundTripDamaged ==
    {SubSeq(Written(f), 1, Len(Written(f)) - 1) : f \in RoundTripInner}
    \cup {Tail(Written(f)) : f \in RoundTripCore}
    \cup {Written(f) \o Written(f) : f \in RoundTripCore}
    \cup {<<"(", "&", ")">>, <<"(", "!", ")">>, <<"(", ")">>, <<>>}

RoundTripTexts == {Written(f) : f \in RoundTripFilters} \cup RoundTripDamaged

RoundTripEntries ==
    {EmptyDict,
     [a \in {attr_cn} |-> <<val_a>>],
     [a \in {attr_cn} |-> <<>>],
     [a \in {attr_cn, attr_sn} |-> IF a = attr_cn THEN <<val_bs61>> ELSE <<val_b>>],
     [a \in {attr_cn, attr_sn} |-> IF a = attr_cn THEN <<val_paren, <<"*">>>> ELSE <<val_a>>],
     [a \in {attr_cn} |-> <<val_a_amp_b, val_b>>]}

InitRoundTrip ==
    /\ obj = LDAPObject(EmptyDict)
    /\ heap = [a \in Addr |-> Free]
    /\ held = {}
    /\ passlib = FALSE
    /\ seeded = <<>>
    /\ invoked = <<>>
    /\ trace = <<>>
    /\ expected_bound = None
    /\ \E filterstr \in RoundTripTexts, attrs \in RoundTripEntries :
          last = [stage |-> "text", filterstr |-> filterstr, attrs |-> attrs,
                  first |-> Return(None), unparsed |-> <<>>, second |-> Return(None),
                  matches |-> <<>>]

RoundTripStep(stage) ==
    /\ last.stage = stage
    /\ UNCHANGED <<obj, heap, held, passlib, seeded, invoked, trace, expected_bound>>

(* first = parse(filterstr) *)
RoundTripParse ==
    /\ RoundTripStep("text")
    /\ last' = [last EXCEPT !.first = parse(last.filterstr),
                            !.stage = IF parse(last.filterstr).kind = "return"
                                      THEN "parsed" ELSE "rejected"]

(* unparsed = first.unparse() *)
RoundTripUnparse ==
    /\ RoundTripStep("parsed")
    /\ last' = [last EXCEPT !.unparsed = unparse(last.first.value), !.stage = "unparsed"]

(* second = parse(unparsed) *)
RoundTripReparse ==
    /\ RoundTripStep("unparsed")
    /\ last' = [last EXCEPT !.second = parse(last.unparsed), !.stage = "reparsed"]

(* first.matches(dn, attrs) and second.matches(dn, attrs), where the       *)
(* second parse gave a tree                                                *)
RoundTripEvaluate ==
    /\ RoundTripStep("reparsed")
    /\ last.second.kind = "return"
    /\ last' = [last EXCEPT !.matches = <<Token_matches(last.first.value, last.attrs),
                                          Token_matches(last.second.value, last.attrs)>>,
                            !.stage = "evaluated"]

NextRoundTrip == RoundTripParse \/ RoundTripUnparse \/ RoundTripReparse \/ RoundTripEvaluate

SpecRoundTrip == InitRoundTrip /\ [][NextRoundTrip]_vars

----------------------------------------------------------------------------
(* SpecSeeded: a client over two entries with a password, and a caller     *)
(* that seeds and calls the methods that change the client: it binds,      *)
(* adds, modifies, renames and deletes, starts TLS and starts a search,    *)
(* each with a seed for it and without.                                    *)

SeededCalls ==
    {<<"simple_bind_s", <<PyStr(dn_alice), PyStr(pw1)>>>>,
     <<"add_s", <<PyStr(dn_bob), record_bob>>>>,
     <<"modify_s", <<PyStr(dn_alice), PyList(<<<<MOD_REPLACE, attr_cn, PyList(<<val_b>>)>>>>)>>>>,
     <<"rename_s", <<PyStr(dn_alice), PyStr(rdn_cn_b)>>>>,
     <<"delete_s", <<PyStr(dn_alice)>>>>,
     <<"start_tls_s", <<>>>>,
     <<"search", <<PyStr(dn_test), PyInt(SCOPE_SUBTREE), PyStr(filter_cn_any)>>>>}

SeededValues == {PyTuple(<<97, <<>>>>), ExcInstance("NO_SUCH_OBJECT")}

InitSeeded ==
    /\ obj = LDAPObject(DnDirectory)
    /\ heap = [a \in Addr |-> Free]
    /\ held = {}
    /\ passlib = FALSE
    /\ InitCaller

SeedCall ==
    /\ Len(seeded) < MaxSeededSeeds
    /\ \E c \in SeededCalls, value \in SeededValues : Seed(c[1], c[2], <<>>, value)

CallSeeded ==
    /\ CallsLeft(MaxSeededCalls)
    /\ \E c \in SeededCalls : Invoke(c[1], c[2], <<>>)

NextSeeded == SeedCall \/ CallSeeded

SpecSeeded == InitSeeded /\ [][NextSeeded]_vars

----------------------------------------------------------------------------
(* SpecReadOnly: a client over two entries with a password, and a caller   *)
(* that only reads: it searches in every scope, with filters the client    *)
(* can and cannot do, with and without a list of attributes and the        *)
(* attributes-only flag, starts searches and fetches their results,        *)
(* compares, binds, asks for the call log, and changes the lists of the    *)
(* results it got.                                                         *)

ReadOnlyBase == {dn_test, dn_missing}
ReadOnlyHow ==
    {<<filter_cn_any, None, 0>>, <<filter_cn_any, PyList(<<attr_cn>>), 0>>,
     <<filter_cn_any, PyList(<<attr_cn, attr_zz>>), 1>>, <<filter_cn_a, None, 1>>,
     <<filter_approx, None, 0>>}

InitReadOnly ==
    /\ obj = LDAPObject(DnDirectory)
    /\ heap = [a \in Addr |-> Free]
    /\ held = {}
    /\ passlib = FALSE
    /\ InitCaller

ReadOnlySearch ==
    /\ CallsLeft(MaxReadOnlyCalls)
    /\ \E base \in ReadOnlyBase, scope \in SearchScope, how \in ReadOnlyHow :
          Invoke("search_s", <<PyStr(base), PyInt(scope), PyStr(how[1])>>,
                 <<<<"attrlist", how[2]>>, <<"attrsonly", PyInt(how[3])>>>>)

ReadOnlyAsync ==
    /\ CallsLeft(MaxReadOnlyCalls)
    /\ \E base \in ReadOnlyBase :
          Invoke("search", <<PyStr(base), PyInt(SCOPE_SUBTREE), PyStr(filter_cn_any),
                             PyList(<<attr_cn>>)>>, <<>>)

ReadOnlyResult ==
    /\ CallsLeft(MaxReadOnlyCalls)
    /\ \E msgid \in {0, 1} : Invoke("result", <<PyInt(msgid)>>, <<>>)

ReadOnlyCompare ==
    /\ CallsLeft(MaxReadOnlyCalls)
    /\ \E dn \in {dn_alice, dn_missing}, attr \in {attr_cn, attr_zz} :
          Invoke("compare_s", <<PyStr(dn), PyStr(attr), PyStr(val_a)>>, <<>>)

ReadOnlyBind ==
    /\ CallsLeft(MaxReadOnlyCalls)
    /\ \E cred \in {pw1, pw2} : Invoke("simple_bind_s", <<PyStr(dn_alice), PyStr(cred)>>, <<>>)

(* methods_called(with_args=True): the caller notes the log it is given *)
ReadOnlyQuery ==
    /\ last.name # "methods_called"
    /\ last' = [NoCall EXCEPT !.name = "methods_called",
                              !.seen = methods_called_with_args(obj, heap)]
    /\ UNCHANGED <<obj, heap, held, passlib, seeded, invoked, trace, expected_bound>>

(* results[0][1]['cn'].append('e'): the caller changes a list of the first *)
(* entry of the results of a search_s, which changes the list of the store *)
(* if it is that list.                                                     *)
MutateResult ==
    /\ last.name = "search_s"
    /\ last.out.kind = "return"
    /\ last.seen.v # <<>>
    /\ attr_cn \in DOMAIN last.seen.v[1][2]
    /\ ~InList(val_e, last.seen.v[1][2][attr_cn])
    /\ last' = [last EXCEPT !.seen.v[1][2][attr_cn] = Append(@, val_e)]
    /\ obj' = IF <<1, attr_cn>> \in last.shares
              THEN [obj EXCEPT !.directory.data[lower(last.seen.v[1][1])][attr_cn] =
                                  Append(@, val_e)]
              ELSE obj
    /\ UNCHANGED <<heap, held, passlib, seeded, invoked, trace, expected_bound>>

NextReadOnly ==
    \/ ReadOnlySearch \/ ReadOnlyAsync \/ ReadOnlyResult \/ ReadOnlyCompare
    \/ ReadOnlyBind \/ ReadOnlyQuery \/ MutateResult

SpecReadOnly == InitReadOnly /\ [][NextReadOnly]_vars

----------------------------------------------------------------------------
(* What the claims speak of. *)

(* The entry a dn names, if there is one: dns are compared without case. *)
HasEntry(o, dn) == \E k \in cidict_keys(o.directory) : lower(k) = lower(dn)

EntryOf(o, dn) ==
    cidict_getitem(o.directory, CHOOSE k \in cidict_keys(o.directory) : lower(k) = lower(dn))

(* The values an entry stores for an attribute: none if it has not got it *)
StoredValues(entry, attr) == IF attr \in DOMAIN entry THEN entry[attr] ELSE <<>>

LastWho == Param(last.args, last.kwargs, 1, "who", PyStr(<<>>)).v
LastCred == Param(last.args, last.kwargs, 2, "cred", PyStr(<<>>)).v

(* The last call was a bind that the simulated implementation handled. *)
LastBindRan == last.name = "simple_bind_s" /\ last.ran

LastBindAnonymous == LastWho = <<>> /\ LastCred = <<>>

BindSucceeded == last.out = Return(PyTuple(<<97, <<>>>>))

----------------------------------------------------------------------------
(* C6: the bound identity is None on a new client, and after any sequence  *)
(* of binds and unbinds it is the identity of the most recent successful   *)
(* bind with no later unbind, and None otherwise: a failed bind leaves it  *)
(* as it was and an unbind clears it, bound or not.  expected_bound is     *)
(* what the caller works out from the results of its calls alone.          *)
C6_BoundIdentity == obj.bound_as = expected_bound

(* A bind failed on a client bound as cn=A,ou=E,o=t, and it is still bound. *)
C6_Witness ==
    /\ LastBindRan
    /\ last.out.kind = "raise"
    /\ Len(invoked) >= 2
    /\ expected_bound = PyStr(dn_Alice)
    /\ obj.bound_as = PyStr(dn_Alice)

(* C7: a bind succeeds with (97, []) if and only if it is anonymous or the  *)
(* credential equals one of the stored userPassword values of the           *)
(* identity's entry, and when the entry exists and no stored value matches  *)
(* it fails with INVALID_CREDENTIALS.                                       *)
C7_BindOutcome ==
    LastBindRan =>
        LET exists == HasEntry(obj, LastWho)
            matches == /\ exists
                       /\ InList(LastCred, StoredValues(EntryOf(obj, LastWho), userPassword))
        IN  /\ BindSucceeded <=> (LastBindAnonymous \/ matches)
            /\ (exists /\ ~LastBindAnonymous /\ ~matches)
                  => (last.out.kind = "raise" /\ last.out.exc = "INVALID_CREDENTIALS")

----------------------------------------------------------------------------
(* The last call was a search or a compare that the simulated              *)
(* implementation handled, and its arguments.                              *)

LastSearchRan == last.name = "search_s" /\ last.ran

LastBase == Param(last.args, last.kwargs, 1, "base", None).v
LastScope == Param(last.args, last.kwargs, 2, "scope", None).v
LastFilterstr == Param(last.args, last.kwargs, 3, "filterstr", PyStr(DefaultFilterstr)).v

LastCompareRan == last.name = "compare_s" /\ last.ran

LastDn == Param(last.args, last.kwargs, 1, "dn", None).v
LastAttr == Param(last.args, last.kwargs, 2, "attr", None).v
LastValue == Param(last.args, last.kwargs, 3, "value", None).v

Contains(s, sub) == count(s, sub) > 0

(* A filter with one of the operators ~=, <= and >= *)
UnsupportedOperator(filterstr) ==
    \/ Contains(filterstr, <<"~", "=">>)
    \/ Contains(filterstr, <<"<", "=">>)
    \/ Contains(filterstr, <<">", "=">>)

(* A filter with a wildcard that is not the whole of a value *)
EmbeddedWildcard(filterstr) ==
    \E i \in 1..Len(filterstr) :
        /\ filterstr[i] = "*"
        /\ ~(i > 1 /\ filterstr[i - 1] = "=" /\ i < Len(filterstr) /\ filterstr[i + 1] = ")")

(* A filter of one test, attr=value in brackets, where the value may be   *)
(* the wildcard alone: its attribute and its value                         *)
SimpleFilter(filterstr) ==
    /\ ~UnsupportedOperator(filterstr)
    /\ ~EmbeddedWildcard(filterstr)
    /\ count(filterstr, <<"=">>) = 1
    /\ count(filterstr, <<"(">>) = 1

SimpleAttr(filterstr) == split(slice(filterstr, 1, -1), <<"=">>)[1]
SimpleValue(filterstr) == split(slice(filterstr, 1, -1), <<"=">>)[2]

(* The dns of the entries a search returned *)
Returned(out) == {out.value.v[i][1] : i \in 1..Len(out.value.v)}

----------------------------------------------------------------------------
(* C3: an unseeded search whose filter has an unsupported operator or an   *)
(* embedded wildcard raises SeedRequired, which carries the name of the    *)
(* operation and the positional and keyword arguments of the call.         *)
C3_SeedRequired ==
    (LastSearchRan /\ (UnsupportedOperator(LastFilterstr) \/ EmbeddedWildcard(LastFilterstr)))
        => /\ last.out.kind = "raise"
           /\ last.out.exc = "SeedRequired"
           /\ last.out.msg.call = <<last.name, last.args, last.kwargs>>

(* C9, as it was stated: compare_s fails with NO_SUCH_OBJECT when no entry  *)
(* has the dn, with UNDEFINED_TYPE when the entry has not got the           *)
(* attribute, and otherwise returns 1 if the value is among the stored      *)
(* values and 0 if it is not.                                               *)
C9_CompareAsStated ==
    LastCompareRan =>
        IF ~HasEntry(obj, LastDn)
        THEN last.out.kind = "raise" /\ last.out.exc = "NO_SUCH_OBJECT"
        ELSE IF LastAttr \notin DOMAIN EntryOf(obj, LastDn)
        THEN last.out.kind = "raise" /\ last.out.exc = "UNDEFINED_TYPE"
        ELSE last.out = Return(PyInt(IF InList(LastValue, EntryOf(obj, LastDn)[LastAttr])
                                     THEN 1 ELSE 0))

(* The value is the password of which a stored userPassword value is the    *)
(* md5-crypt text, and passlib is there to tell.                            *)
VerifiesHashed(entry, attr, value) ==
    /\ passlib
    /\ attr = userPassword
    /\ InList(Md5Crypt(value), entry[attr])

(* C9, amended: compare_s fails with NO_SUCH_OBJECT when no entry has the   *)
(* dn, with UNDEFINED_TYPE when the entry has not got the attribute, and    *)
(* otherwise returns 1 if the value is among the stored values, or if the   *)
(* attribute is userPassword and passlib verifies the value against a       *)
(* stored md5-crypt value, and 0 if neither.                                *)
C9_Compare ==
    LastCompareRan =>
        IF ~HasEntry(obj, LastDn)
        THEN last.out.kind = "raise" /\ last.out.exc = "NO_SUCH_OBJECT"
        ELSE IF LastAttr \notin DOMAIN EntryOf(obj, LastDn)
        THEN last.out.kind = "raise" /\ last.out.exc = "UNDEFINED_TYPE"
        ELSE last.out =
                Return(PyInt(IF \/ InList(LastValue, EntryOf(obj, LastDn)[LastAttr])
                                \/ VerifiesHashed(EntryOf(obj, LastDn), LastAttr, LastValue)
                             THEN 1 ELSE 0))

(* compare_s returned 1 for a password that is stored as md5-crypt text only. *)
C9_Witness ==
    /\ LastCompareRan
    /\ LastDn = dn_Alice
    /\ LastAttr = userPassword
    /\ LastValue = pw2
    /\ HasEntry(obj, dn_Alice)
    /\ ~InList(pw2, StoredValues(EntryOf(obj, dn_Alice), userPassword))
    /\ last.out = Return(PyInt(1))

(* C10: a search with a filter (attr=value) returns a candidate if and     *)
(* only if the candidate has the attribute with that very value, and with   *)
(* the wildcard for value if and only if it has the attribute with at      *)
(* least one value; a                                                      *)
(* candidate without the attribute is not returned, and that is no error.   *)
(* The candidates are the entries the scope takes in; a base search on a    *)
(* base that is no entry is left aside.                                     *)
C10_SimpleFilter ==
    (/\ LastSearchRan
     /\ SimpleFilter(LastFilterstr)
     /\ ~(LastScope = SCOPE_BASE /\ LastBase \notin cidict_keys(obj.directory)))
        => /\ last.out.kind = "return"
           /\ \A i \in 1..Len(Candidates(obj, LastBase, LastScope)) :
                 LET dn == Candidates(obj, LastBase, LastScope)[i]
                     values == StoredValues(EntryOf(obj, dn), SimpleAttr(LastFilterstr))
                 IN  dn \in Returned(last.out)
                        <=> IF SimpleValue(LastFilterstr) = <<"*">>
                            THEN values # <<>>
                            ELSE InList(SimpleValue(LastFilterstr), values)

----------------------------------------------------------------------------
(* The seeds the last call could match: those registered before it, for    *)
(* the same operation, with arguments equal to the call's as both were     *)
(* when the caller wrote them down.                                        *)

MatchingSeeds ==
    {i \in 1..last.nseeds : seeded[i].name = last.name /\ seeded[i].sig = last.sig}

NewestMatching == seeded[CHOOSE i \in MatchingSeeds : \A j \in MatchingSeeds : j <= i]

IsException(value) == value.t \in {"excinst", "exccls"}

LastRecorded ==
    /\ Len(obj._recorded_calls_internal) = Len(invoked)
    /\ obj._recorded_calls_internal[Len(invoked)] = <<last.name, last.args, last.kwargs>>

(* The seeds of search_s as the client stores them, oldest first *)
StoredSeeds ==
    [i \in 1..Len(obj._seeded_calls_internal["search_s"]) |->
        obj._seeded_calls_internal["search_s"]
            [Len(obj._seeded_calls_internal["search_s"]) - i + 1]]

----------------------------------------------------------------------------
(* C1: a call gets the value of the most recently registered seed of the   *)
(* operation whose arguments equal the call's, and the implementation is   *)
(* not run; the implementation runs exactly when no seed of the operation  *)
(* has equal arguments.  A seed stays: later calls get it again, and calls *)
(* written otherwise, positional for keyword, do not.                      *)
C1_SeedLookup ==
    last.name # "" =>
        IF MatchingSeeds = {} THEN last.ran
        ELSE /\ ~last.ran
             /\ ~IsException(NewestMatching.value)
                   => (last.out.kind = "return" /\ last.seen = NewestMatching.value)

(* Two seeds with the same arguments and different values, and the second  *)
(* of two equal calls got the newer one, as the first had.                 *)
C1_Witness ==
    /\ Len(seeded) = 2
    /\ seeded[1].sig = seeded[2].sig
    /\ seeded[1].value # seeded[2].value
    /\ ~IsException(seeded[2].value)
    /\ last.nseeds = 2
    /\ last.sig = seeded[2].sig
    /\ Len(invoked) = 2
    /\ invoked[1] = invoked[2]
    /\ ~last.ran
    /\ last.seen = seeded[2].value

(* C2: every invocation appends one record of its name, positional         *)
(* arguments and keyword arguments to the call log, whatever comes of it,   *)
(* so that the log lists the invocations in their order.                   *)
C2_CallLog ==
    /\ obj._recorded_calls_internal = invoked
    /\ methods_called(obj) = [i \in 1..Len(invoked) |-> invoked[i][1]]

(* Two calls are in the log, the second of which raised a seeded exception *)
(* and was written with keywords.                                          *)
C2_Witness ==
    /\ Len(obj._recorded_calls_internal) = 2
    /\ last.kwargs # <<>>
    /\ ~last.ran
    /\ last.out.kind = "raise"

(* C4: when the most recently registered matching seed is an exception     *)
(* instance or class, the call raises it, the implementation is not run,   *)
(* and the call is in the log.                                             *)
C4_SeededException ==
    (last.name # "" /\ MatchingSeeds # {} /\ IsException(NewestMatching.value))
        => /\ last.out = Raise(NewestMatching.value.v, NoMsg)
           /\ ~last.ran
           /\ LastRecorded

(* A call raised the exception class that was seeded after a list of results. *)
C4_Witness ==
    /\ Len(seeded) = 2
    /\ seeded[1].sig = seeded[2].sig
    /\ ~IsException(seeded[1].value)
    /\ seeded[2].value = ExcClass("INVALID_CREDENTIALS")
    /\ last.nseeds = 2
    /\ last.sig = seeded[2].sig
    /\ last.out = Raise("INVALID_CREDENTIALS", NoMsg)
    /\ LastRecorded

(* C5: a seed is stored and served by copy.  Whatever the caller does to   *)
(* the lists it holds, the stored seeds stay as they were registered, the  *)
(* caller holds no list a seed is made of, and a call matches and gets     *)
(* what was registered.                                                    *)
C5_SeedsByCopy ==
    /\ Len(StoredSeeds) = Len(seeded)
    /\ \A i \in 1..Len(seeded) :
          /\ _call_repr(heap, "search_s", StoredSeeds[i][1][1], StoredSeeds[i][1][2])
                = seeded[i].sig
          /\ Resolve(StoredSeeds[i][2], heap) = seeded[i].value
          /\ StoredSeeds[i][2].t = "ref" => StoredSeeds[i][2].v \notin held
    /\ last.name # "" =>
          /\ last.ran <=> MatchingSeeds = {}
          /\ ~last.ran => (last.out.kind = "return" /\ last.seen = NewestMatching.value)

(* The caller has changed its list of attributes, its list of results and  *)
(* the list the first call gave it, and the second call, written with the  *)
(* attributes as they were, got the results as they were.                  *)
C5_Witness ==
    /\ Len(seeded) = 1
    /\ heap[1] # PyList(<<attr_cn>>)
    /\ heap[2] # seeded[1].value
    /\ Len(invoked) = 2
    /\ invoked[1] = invoked[2]
    /\ \E a \in held \ {1, 2} : Len(heap[a].v) = 2
    /\ last.args = ArgsLiteral
    /\ ~last.ran
    /\ last.seen = PyList(<<<<dn_alice, RecDirectory[dn_alice]>>>>)
    /\ last.seen = seeded[1].value

----------------------------------------------------------------------------
(* C11: a search with a composite filter returns exactly the candidates on  *)
(* which the filter is true, where AND is true iff every child is true, OR  *)
(* iff at least one child is true and NOT iff its child is false; so for    *)
(* more than two children, for a child whose attribute no entry has, for a  *)
(* NOT filter and for a composite inside a composite.  The candidates are   *)
(* the entries the scope takes in.                                          *)
C11_CompositeFilter ==
    (/\ LastSearchRan
     /\ \E f \in CompositeFilters : unparse(f) = LastFilterstr
     /\ ~(LastScope = SCOPE_BASE /\ LastBase \notin cidict_keys(obj.directory)))
        => /\ last.out.kind = "return"
           /\ \A i \in 1..Len(Candidates(obj, LastBase, LastScope)) :
                 LET dn == Candidates(obj, LastBase, LastScope)[i]
                     f == CHOOSE g \in CompositeFilters : unparse(g) = LastFilterstr
                 IN  dn \in Returned(last.out) <=> Token_matches(f, EntryOf(obj, dn))

----------------------------------------------------------------------------
(* C16: a search with a text that the grammar of filters does not accept,   *)
(* such as a test without brackets or a test with an empty value, raises    *)
(* FILTER_ERROR; it neither asks for a seed nor returns an empty list.      *)
C16_MalformedFilter ==
    (LastSearchRan /\ ~Parses(LastFilterstr))
        => /\ last.out.kind = "raise"
           /\ last.out.exc = "FILTER_ERROR"

----------------------------------------------------------------------------
(* The components of a dn, which are compared without case, and the place   *)
(* of an entry under a base.                                                *)
Components(dn) == split(lower(dn), <<",">>)

EndsWithComponents(dn, base) ==
    /\ Len(Components(dn)) >= Len(Components(base))
    /\ SubSeq(Components(dn), Len(Components(dn)) - Len(Components(base)) + 1,
              Len(Components(dn))) = Components(base)

InScope(dn, base, scope) ==
    IF scope = SCOPE_ONELEVEL
    THEN EndsWithComponents(dn, base) /\ Len(Components(dn)) = Len(Components(base)) + 1
    ELSE scope = SCOPE_SUBTREE /\ EndsWithComponents(dn, base)

(* Whether an entry passes a filter of one test *)
PassesSimple(entry, filterstr) ==
    IF SimpleValue(filterstr) = <<"*">>
    THEN StoredValues(entry, SimpleAttr(filterstr)) # <<>>
    ELSE InList(SimpleValue(filterstr), StoredValues(entry, SimpleAttr(filterstr)))

(* C12: a search of scope ONELEVEL or SUBTREE looks at the entries whose    *)
(* components, compared without case, end with the components of base:      *)
(* ONELEVEL at those with exactly one component more, SUBTREE at base and   *)
(* all below it.  It returns those of them that pass the filter, and no     *)
(* entry whose text merely ends with the text of base; base in another      *)
(* letter case selects the same entries.                                    *)
C12_ScopeByComponents ==
    (/\ LastSearchRan
     /\ LastScope \in {SCOPE_ONELEVEL, SCOPE_SUBTREE}
     /\ SimpleFilter(LastFilterstr))
        => /\ last.out.kind = "return"
           /\ Returned(last.out) =
                 {dn \in cidict_keys(obj.directory) :
                     /\ InScope(dn, LastBase, LastScope)
                     /\ PassesSimple(EntryOf(obj, dn), LastFilterstr)}

----------------------------------------------------------------------------
(* C13: a search of scope ONELEVEL returns no entry whose number of         *)
(* components is other than one more than the number of components of base. *)
C13_OneLevelDepth ==
    (LastSearchRan /\ LastScope = SCOPE_ONELEVEL /\ last.out.kind = "return")
        => \A dn \in Returned(last.out) :
               Len(Components(dn)) = Len(Components(LastBase)) + 1

----------------------------------------------------------------------------
(* C15: a search raises NO_SUCH_OBJECT exactly when the scope is BASE and   *)
(* the store has no entry for base; in every other case, so for an absent   *)
(* base with scope ONELEVEL or SUBTREE and when no candidate passes the     *)
(* filter, it returns a list, which may be empty.                           *)
C15_NoSuchEntry ==
    (LastSearchRan /\ SimpleFilter(LastFilterstr))
        => IF LastScope = SCOPE_BASE /\ ~HasEntry(obj, LastBase)
           THEN last.out.kind = "raise" /\ last.out.exc = "NO_SUCH_OBJECT"
           ELSE last.out.kind = "return"

----------------------------------------------------------------------------
(* Two calls of search_s on the same store whose arguments differ in the    *)
(* scope alone: call i has scope BASE, call j has scope SUBTREE.            *)
BaseAndSubtree(i, j) ==
    /\ invoked[i][1] = "search_s" /\ invoked[j][1] = "search_s"
    /\ invoked[i][2][2] = PyInt(SCOPE_BASE)
    /\ invoked[j][2] = [invoked[i][2] EXCEPT ![2] = PyInt(SCOPE_SUBTREE)]
    /\ invoked[i][3] = invoked[j][3]
    /\ trace[i].before = trace[j].before

ResultPairs(out) == {out.value.v[k] : k \in 1..Len(out.value.v)}

----------------------------------------------------------------------------
(* The list of attributes and the attributes-only flag of the last search   *)
LastAttrlist == Param(last.args, last.kwargs, 4, "attrlist", None)
LastAttrsonly == Param(last.args, last.kwargs, 5, "attrsonly", PyInt(0)).v

(* The attributes a search reports for the result at place k, and the       *)
(* stored entry of that result                                              *)
ReportedAttrs(k) == last.out.value.v[k][2]
StoredEntry(k) == EntryOf(obj, last.out.value.v[k][1])

(* The projection of an entry: the attributes that are kept, each with its  *)
(* values, or with none when attributes-only is set.                        *)
Projected(entry, keep, attrsonly) ==
    [a \in keep |-> IF attrsonly # 0 THEN <<>> ELSE entry[a]]

(* C17 as stated: when a list of attributes is given, a returned entry has  *)
(* only its attributes that the list names; when attributes-only is set,    *)
(* every attribute kept has an empty list of values; with neither, the      *)
(* entry has all its attributes with all their values.                      *)
C17_ProjectionAsStated ==
    (LastSearchRan /\ last.out.kind = "return")
        => \A k \in 1..Len(last.out.value.v) :
               ReportedAttrs(k) =
                   Projected(StoredEntry(k),
                             IF LastAttrlist = None THEN DOMAIN StoredEntry(k)
                             ELSE {a \in DOMAIN StoredEntry(k) : InList(a, LastAttrlist.v)},
                             LastAttrsonly)

(* C17: when a list of attributes that is not empty is given, a returned    *)
(* entry has only its attributes that the list names; an empty list counts  *)
(* as no list.  When attributes-only is set,                                *)
(* every attribute kept has an empty list of values; with neither, the      *)
(* entry has all its attributes with all their values.                      *)
C17_Projection ==
    (LastSearchRan /\ last.out.kind = "return")
        => \A k \in 1..Len(last.out.value.v) :
               ReportedAttrs(k) =
                   Projected(StoredEntry(k),
                             IF LastAttrlist = None \/ LastAttrlist.v = <<>>
                             THEN DOMAIN StoredEntry(k)
                             ELSE {a \in DOMAIN StoredEntry(k) : InList(a, LastAttrlist.v)},
                             LastAttrsonly)

(* A search with the list [sn, zz] and attributes-only, which returned an   *)
(* entry with sn alone, without values.                                     *)
C17_Witness ==
    /\ LastSearchRan
    /\ last.out.kind = "return"
    /\ LastAttrlist = PyList(<<attr_sn, attr_zz>>)
    /\ LastAttrsonly = 1
    /\ \E k \in 1..Len(last.out.value.v) :
          /\ DOMAIN ReportedAttrs(k) = {attr_sn}
          /\ ReportedAttrs(k)[attr_sn] = <<>>
          /\ StoredEntry(k)[attr_sn] # <<>>

----------------------------------------------------------------------------
(* Call i started a search, and what search_s would have returned or        *)
(* raised for its arguments on the store as it was then.                    *)
IsSearch(i) == invoked[i][1] = "search"

SyncOutcomes(i) ==
    _search_s([obj EXCEPT !.directory = trace[i].before], heap,
              Param(invoked[i][2], invoked[i][3], 1, "base", None).v,
              Param(invoked[i][2], invoked[i][3], 2, "scope", None).v,
              Param(invoked[i][2], invoked[i][3], 3, "filterstr", PyStr(DefaultFilterstr)).v,
              Param(invoked[i][2], invoked[i][3], 4, "attrlist", None),
              Param(invoked[i][2], invoked[i][3], 5, "attrsonly", PyInt(0)).v)

(* Call k fetched a result, and its msgid *)
IsResult(k) == invoked[k][1] = "result"
MsgidOf(k) == Param(invoked[k][2], invoked[k][3], 1, "msgid", None)

(* Call i is the search that gave out the msgid of call k *)
Issued(i, k) == i < k /\ IsSearch(i) /\ trace[i].out = Return(MsgidOf(k))

(* Call k is the first to fetch the msgid that search i gave out *)
FirstFetch(i, k) ==
    /\ IsResult(k)
    /\ Issued(i, k)
    /\ ~\E j \in (i + 1)..(k - 1) : IsResult(j) /\ MsgidOf(j) = MsgidOf(k)

(* A search raises what search_s would have raised then, and else gives out *)
(* a msgid that no earlier search gave out.                                 *)
SearchIsEager ==
    \A i \in 1..Len(invoked) :
        IsSearch(i) =>
            IF trace[i].out.kind = "raise"
            THEN trace[i].out \in SyncOutcomes(i)
            ELSE /\ \A out \in SyncOutcomes(i) : out.kind = "return"
                 /\ \A j \in 1..(i - 1) : IsSearch(j) => trace[j].out # trace[i].out

(* C18 as stated: the first fetch of a msgid returns what search_s would    *)
(* have returned at the time of the search, and every later fetch and every *)
(* fetch of a msgid that no search gave out returns None.                   *)
C18_AsyncAsStated ==
    /\ SearchIsEager
    /\ \A k \in 1..Len(invoked) :
          IsResult(k) =>
              IF \E i \in 1..(k - 1) : FirstFetch(i, k)
              THEN \A i \in 1..(k - 1) : FirstFetch(i, k) => trace[k].out \in SyncOutcomes(i)
              ELSE trace[k].out = Return(None)

(* C18: a search computes its result when it is called and gives out a      *)
(* msgid.  The first fetch of a msgid returns the pair of RES_SEARCH_RESULT *)
(* and what search_s would have returned at the time of the search; every   *)
(* later fetch and every fetch of a msgid that no search gave out returns   *)
(* the pair of RES_SEARCH_RESULT and None.  What other msgids were fetched  *)
(* in between makes no difference.                                          *)
C18_Async ==
    /\ SearchIsEager
    /\ \A k \in 1..Len(invoked) :
          IsResult(k) =>
              IF \E i \in 1..(k - 1) : FirstFetch(i, k)
              THEN \A i \in 1..(k - 1) : FirstFetch(i, k) =>
                      \E out \in SyncOutcomes(i) :
                          trace[k].out = Return(PyTuple(<<RES_SEARCH_RESULT, out.value>>))
              ELSE trace[k].out = Return(PyTuple(<<RES_SEARCH_RESULT, None>>))

(* Two searches, then the fetch of the first msgid and the fetch of the     *)
(* second, which returned the entries the second search had found.          *)
C18_Witness ==
    /\ Len(invoked) = 4
    /\ IsSearch(1) /\ IsSearch(2)
    /\ FirstFetch(1, 3) /\ FirstFetch(2, 4)
    /\ trace[4].out.value.v[2] # None
    /\ trace[4].out.value.v[2].v # <<>>

(* A search, then a change of the store, then the fetch, which returned  *)
(* what the store held at the time of the search, and a second fetch.       *)
C18_WitnessStale ==
    /\ Len(invoked) = 4
    /\ IsSearch(1)
    /\ invoked[2][1] = "delete_s" /\ trace[2].out.kind = "return"
    /\ FirstFetch(1, 3)
    /\ IsResult(4) /\ MsgidOf(4) = MsgidOf(3)
    /\ dn_alice \in {trace[3].out.value.v[2].v[n][1] : n \in 1..Len(trace[3].out.value.v[2].v)}

----------------------------------------------------------------------------
(* The store and the names of the calls before call k and after it *)
StoreBefore(k) == trace[k].before
StoreAfter(k) == IF k = Len(trace) THEN obj.directory ELSE trace[k + 1].before
CalledBefore(k) == trace[k].called
CalledAfter(k) == IF k = Len(trace) THEN methods_called(obj) ELSE trace[k + 1].called

(* Whether a store has an entry for a dn, and the entry *)
StoreHas(d, dn) == \E k \in cidict_keys(d) : lower(k) = lower(dn)
StoreEntry(d, dn) == cidict_getitem(d, CHOOSE k \in cidict_keys(d) : lower(k) = lower(dn))

(* Call k is an add_s or a delete_s that the simulated implementation       *)
(* handled, its dn and its record                                           *)
IsAdd(k) == invoked[k][1] = "add_s"
IsDelete(k) == invoked[k][1] = "delete_s"
DnOf(k) == Param(invoked[k][2], invoked[k][3], 1, "dn", None).v
RecordOf(k) == Param(invoked[k][2], invoked[k][3], 2, "record", None).v

(* The attributes and values a record gives, each attribute once *)
GivenAttrs(record) == {record[i][1] : i \in 1..Len(record)}
GivenValues(record, a) == record[CHOOSE i \in 1..Len(record) : record[i][1] = a][2]

(* C19: add_s raises ALREADY_EXISTS when the store has an entry for the dn, *)
(* and leaves the store as it was; otherwise the store gets an entry for    *)
(* the dn with exactly the attributes and values of the record, and add_s   *)
(* returns (105, [], n, []), where n is the number of calls recorded on the *)
(* client so far, this one included.                                        *)
C19_Add ==
    \A k \in 1..Len(invoked) :
        IsAdd(k) =>
            IF StoreHas(StoreBefore(k), DnOf(k))
            THEN /\ trace[k].out.kind = "raise"
                 /\ trace[k].out.exc = "ALREADY_EXISTS"
                 /\ StoreAfter(k) = StoreBefore(k)
            ELSE /\ trace[k].out = Return(PyTuple(<<105, <<>>, k, <<>>>>))
                 /\ Len(CalledAfter(k)) = k
                 /\ StoreHas(StoreAfter(k), DnOf(k))
                 /\ DOMAIN StoreEntry(StoreAfter(k), DnOf(k)) = GivenAttrs(RecordOf(k))
                 /\ \A a \in GivenAttrs(RecordOf(k)) :
                       StoreEntry(StoreAfter(k), DnOf(k))[a] = GivenValues(RecordOf(k), a)

(* An add_s of an entry that exists, written in capitals, after an add_s    *)
(* that put an entry in, each as the second or third call.                  *)
C19_Witness ==
    \E i, k \in 2..Len(invoked) :
        /\ IsAdd(i) /\ trace[i].out.kind = "return"
        /\ ~StoreHas(StoreBefore(i), dn_bob) /\ StoreHas(StoreAfter(i), dn_bob)
        /\ IsAdd(k) /\ trace[k].out.kind = "raise"
        /\ DnOf(k) = dn_Alice
        /\ StoreEntry(StoreAfter(k), dn_alice) # EntryOfRecord(RecordOf(k))

----------------------------------------------------------------------------
(* C20: when an add_s of a dn that the store has no entry for succeeds and  *)
(* the next call is delete_s of that dn, the store has the keys it had      *)
(* before the add and every entry is as it was, and the names of the calls  *)
(* are those before the add and the two.                                    *)
C20_AddThenDelete ==
    \A k \in 1..(Len(invoked) - 1) :
        (/\ IsAdd(k) /\ trace[k].out.kind = "return"
         /\ IsDelete(k + 1) /\ lower(DnOf(k + 1)) = lower(DnOf(k)))
            => /\ trace[k + 1].out = Return(PyTuple(<<107, <<>>>>))
               /\ cidict_keys(StoreAfter(k + 1)) = cidict_keys(StoreBefore(k))
               /\ StoreAfter(k + 1) = StoreBefore(k)
               /\ CalledAfter(k + 1) = CalledBefore(k) \o <<"add_s", "delete_s">>

(* An add_s on a store with other entries, and the delete_s of the same dn  *)
(* written in capitals right after it.                                      *)
C20_Witness ==
    \E k \in 1..(Len(invoked) - 1) :
        /\ IsAdd(k) /\ trace[k].out.kind = "return"
        /\ cidict_keys(StoreBefore(k)) # {}
        /\ cidict_keys(StoreAfter(k)) # cidict_keys(StoreBefore(k))
        /\ IsDelete(k + 1) /\ DnOf(k + 1) = dn_BOB
        /\ StoreAfter(k + 1) = StoreBefore(k)

----------------------------------------------------------------------------
(* Call k is a modify_s of one modification: its op, the attribute it      *)
(* names, the values it gives as a list, and the entry before and after    *)
IsModify(k) == invoked[k][1] = "modify_s"
ModsOf(k) == Param(invoked[k][2], invoked[k][3], 2, "mod_attrs", None).v
IsModifyOf(k, op) ==
    /\ IsModify(k) /\ Len(ModsOf(k)) = 1 /\ ModsOf(k)[1][1] = op
    /\ StoreHas(StoreBefore(k), DnOf(k))
KeyOf(k) == ModsOf(k)[1][2]
ValuesOf(k) ==
    LET value == ModsOf(k)[1][3]
    IN  IF value.t = "None" THEN <<>> ELSE IF value.t = "str" THEN <<value.v>> ELSE value.v
EntryBefore(k) == StoreEntry(StoreBefore(k), DnOf(k))
EntryAfter(k) == StoreEntry(StoreAfter(k), DnOf(k))
OthersKept(k) ==
    /\ StoreHas(StoreAfter(k), DnOf(k))
    /\ DOMAIN EntryAfter(k) \ {KeyOf(k)} = DOMAIN EntryBefore(k) \ {KeyOf(k)}
    /\ \A a \in DOMAIN EntryBefore(k) \ {KeyOf(k)} : EntryAfter(k)[a] = EntryBefore(k)[a]
Modified(k) == trace[k].out = Return(PyTuple(<<103, <<>>>>)) /\ OthersKept(k)
InSeq(x, xs) == \E i \in 1..Len(xs) : xs[i] = x
(* What an entry holds for an attribute is the list values, and not a      *)
(* string or None                                                          *)
Holds(stored, values) == stored = values
RECURSIVE Fresh(_, _)
Fresh(xs, have) ==
    IF xs = <<>> THEN <<>>
    ELSE IF InSeq(Head(xs), have) THEN Fresh(Tail(xs), have)
    ELSE <<Head(xs)>> \o Fresh(Tail(xs), Append(have, Head(xs)))

(* C21: a modify_s of MOD_REPLACE on an entry that has the attribute takes *)
(* the attribute out of the entry when the value is None or empty, and     *)
(* otherwise makes the given values its list, one value as a list of one;  *)
(* on an entry that has not got the attribute it raises UNDEFINED_TYPE and *)
(* leaves the store as it was.                                             *)
C21_Replace ==
    \A k \in 1..Len(invoked) :
        IsModifyOf(k, MOD_REPLACE) =>
            IF KeyOf(k) \notin DOMAIN EntryBefore(k)
            THEN ValuesOf(k) # <<>> =>
                    /\ trace[k].out.kind = "raise"
                    /\ trace[k].out.exc = "UNDEFINED_TYPE"
                    /\ StoreAfter(k) = StoreBefore(k)
            ELSE IF ValuesOf(k) = <<>>
            THEN Modified(k) /\ KeyOf(k) \notin DOMAIN EntryAfter(k)
            ELSE /\ Modified(k)
                 /\ KeyOf(k) \in DOMAIN EntryAfter(k)
                 /\ Holds(EntryAfter(k)[KeyOf(k)], ValuesOf(k))

----------------------------------------------------------------------------
(* C22: on the store as the client was made with, a modify_s of MOD_ADD   *)
(* on an attribute the entry has raises PROTOCOL_ERROR when the value is   *)
(* None or empty; otherwise the list of the attribute is what it was,      *)
(* followed by the given values that it had not got, each once.            *)
C22_Add ==
    \A k \in 1..Len(invoked) :
        (/\ IsModifyOf(k, MOD_ADD) /\ KeyOf(k) \in DOMAIN EntryBefore(k)
         /\ StoreBefore(k) = StoreBefore(1)) =>
            IF ValuesOf(k) = <<>>
            THEN trace[k].out.kind = "raise" /\ trace[k].out.exc = "PROTOCOL_ERROR"
            ELSE /\ Modified(k)
                 /\ KeyOf(k) \in DOMAIN EntryAfter(k)
                 /\ Holds(EntryAfter(k)[KeyOf(k)],
                          EntryBefore(k)[KeyOf(k)]
                              \o Fresh(ValuesOf(k), EntryBefore(k)[KeyOf(k)]))

----------------------------------------------------------------------------
(* C23: on the store as the client was made with, a modify_s of           *)
(* MOD_DELETE on an attribute the entry has takes the attribute out of the *)
(* entry when the value is None or empty; otherwise the list of the        *)
(* attribute is what it was without the given values, the others in their  *)
(* order.                                                                  *)
C23_Delete ==
    \A k \in 1..Len(invoked) :
        (/\ IsModifyOf(k, MOD_DELETE) /\ KeyOf(k) \in DOMAIN EntryBefore(k)
         /\ StoreBefore(k) = StoreBefore(1)) =>
            IF ValuesOf(k) = <<>>
            THEN Modified(k) /\ KeyOf(k) \notin DOMAIN EntryAfter(k)
            ELSE /\ Modified(k)
                 /\ KeyOf(k) \in DOMAIN EntryAfter(k)
                 /\ Holds(EntryAfter(k)[KeyOf(k)],
                          SelectSeq(EntryBefore(k)[KeyOf(k)],
                                    LAMBDA v : ~InSeq(v, ValuesOf(k))))

----------------------------------------------------------------------------
(* Call k is a rename_s: the new relative name, the new parent if one is   *)
(* given and the old parent if not, and the dn the entry is to have        *)
IsRename(k) == invoked[k][1] = "rename_s"
NewRdnOf(k) == Param(invoked[k][2], invoked[k][3], 2, "newrdn", None).v
ParentOf(dn) == JoinWith(<<",">>, Tail(split(dn, <<",">>)))
NewParentOf(k) ==
    IF Len(invoked[k][2]) > 2 THEN invoked[k][2][3].v ELSE ParentOf(DnOf(k))
RenamedDn(k) ==
    IF NewParentOf(k) = <<>> THEN NewRdnOf(k) ELSE NewRdnOf(k) \o <<",">> \o NewParentOf(k)
WellFormed(dn) == dn = <<>> \/ \A c \in 1..Len(split(dn, <<",">>)) : InSeq("=", split(dn, <<",">>)[c])
IsRenameOf(k) ==
    /\ IsRename(k)
    /\ WellFormed(DnOf(k)) /\ WellFormed(NewRdnOf(k)) /\ WellFormed(NewParentOf(k))
OtherEntriesKept(k) ==
    /\ \A d \in cidict_keys(StoreBefore(k)) :
          lower(d) # lower(DnOf(k)) =>
              /\ StoreHas(StoreAfter(k), d)
              /\ StoreEntry(StoreAfter(k), d) = StoreEntry(StoreBefore(k), d)
    /\ \A d \in cidict_keys(StoreAfter(k)) :
          lower(d) # lower(RenamedDn(k)) => StoreHas(StoreBefore(k), d)

(* C24: rename_s of a dn without entry raises NO_SUCH_OBJECT; of a dn with *)
(* an entry, to a dn that is no other entry's, it returns (109, []), and   *)
(* the store then has an entry under the new relative name and the new     *)
(* parent, or the old parent when none is given, none under the old dn,    *)
(* and every other entry as it was.                                        *)
C24_Rename ==
    \A k \in 1..Len(invoked) :
        IsRenameOf(k) =>
            IF ~StoreHas(StoreBefore(k), DnOf(k))
            THEN trace[k].out.kind = "raise" /\ trace[k].out.exc = "NO_SUCH_OBJECT"
            ELSE (lower(RenamedDn(k)) = lower(DnOf(k)) \/ ~StoreHas(StoreBefore(k), RenamedDn(k)))
                    => /\ trace[k].out = Return(PyTuple(<<109, <<>>>>))
                       /\ StoreHas(StoreAfter(k), RenamedDn(k))
                       /\ lower(RenamedDn(k)) # lower(DnOf(k)) => ~StoreHas(StoreAfter(k), DnOf(k))
                       /\ OtherEntriesKept(k)

----------------------------------------------------------------------------
(* The attribute and the value of a relative name, and the entry a rename  *)
(* is to leave: the old value out of the old attribute, the new value at   *)
(* the end of the new attribute, and the old attribute gone when nothing   *)
(* is left of it and the new attribute is another.                         *)
RdnAttr(rdn) == split(rdn, <<"=">>)[1]
RdnValue(rdn) == split(rdn, <<"=">>)[2]
OldRdn(k) == split(DnOf(k), <<",">>)[1]
WithoutOld(entry, k) ==
    [a \in DOMAIN entry |->
        IF a = RdnAttr(OldRdn(k))
        THEN SelectSeq(entry[a], LAMBDA v : v # RdnValue(OldRdn(k)))
        ELSE entry[a]]
WithNew(entry, k) ==
    SetAttr(entry, RdnAttr(NewRdnOf(k)),
            StoredValues(entry, RdnAttr(NewRdnOf(k))) \o <<RdnValue(NewRdnOf(k))>>)
Renamed(entry, k) ==
    LET e == WithNew(WithoutOld(entry, k), k)
        old == RdnAttr(OldRdn(k))
    IN  IF old \in DOMAIN e /\ old # RdnAttr(NewRdnOf(k)) /\ e[old] = <<>>
        THEN [a \in DOMAIN e \ {old} |-> e[a]]
        ELSE e

(* C25: after a rename_s on the store as the client was made with, the     *)
(* entry under the new dn has the value of the new relative name at the    *)
(* end of the list of its attribute, which is made if the entry had none,  *)
(* and has the value of the old relative name no longer; the old attribute *)
(* is gone when that was its only value and the new attribute is another,  *)
(* and stays when it has other values or the two attributes are the same.  *)
C25_RenameAttrs ==
    \A k \in 1..Len(invoked) :
        (/\ IsRenameOf(k)
         /\ StoreBefore(k) = StoreBefore(1)
         /\ StoreHas(StoreBefore(k), DnOf(k))
         /\ StoreHas(StoreAfter(k), RenamedDn(k))
         /\ lower(RenamedDn(k)) # lower(DnOf(k)))
            => LET e == Renamed(EntryBefore(k), k)
                   after == StoreEntry(StoreAfter(k), RenamedDn(k))
               IN  /\ DOMAIN after = DOMAIN e
                   /\ \A a \in DOMAIN e \cap DOMAIN after : Holds(after[a], e[a])

----------------------------------------------------------------------------
(* The arguments of call k that are dns: all of them for rename_s, the     *)
(* first for the other operations.                                         *)
DnArgsOf(k) ==
    IF IsRename(k) THEN {invoked[k][2][i].v : i \in 1..Len(invoked[k][2])}
    ELSE {invoked[k][2][1].v}

(* C26: an operation that is handed a dn that is not well formed, as who,  *)
(* dn, base, new relative name or new parent, raises INVALID_DN_SYNTAX and *)
(* leaves the store as it was.                                             *)
C26_InvalidDn ==
    \A k \in 1..Len(invoked) :
        (\E dn \in DnArgsOf(k) : ~WellFormed(dn))
            => /\ trace[k].out.kind = "raise"
               /\ trace[k].out.exc = "INVALID_DN_SYNTAX"
               /\ StoreAfter(k) = StoreBefore(k)

----------------------------------------------------------------------------
(* The registry: whether it has a table, the table, the client a reference *)
(* of the table is of, and the call the caller made last, which every      *)
(* step of the caller notes.                                               *)
HasTable(m) == m.ldap_objects # None
TableOf(m) == m.ldap_objects.v
ClientOf(hp, ref) == hp[ref.v].v
LastUri == last.args[1]
LastPath == last.args[1]

(* C27: the MockLdap has a table of clients exactly when it has a path     *)
(* patched, after any calls of start, stop and stop_all, also ones that    *)
(* raise.                                                                  *)
C27_TableIffInstalled == HasTable(obj) <=> obj.patchers # {}

----------------------------------------------------------------------------
(* C28: a start of a path that is patched and a stop of a path that is not *)
(* raise ValueError, and leave the patched paths, the table and its        *)
(* clients as they were.                                                   *)
C28_FailedStartStop ==
    [][((last'.name = "start" /\ LastPath' \in obj.patchers)
            \/ (last'.name = "stop" /\ LastPath' \notin obj.patchers))
          => /\ last'.out.kind = "raise"
             /\ last'.out.exc = "ValueError"
             /\ obj'.patchers = obj.patchers
             /\ obj'.ldap_objects = obj.ldap_objects
             /\ heap' = heap]_vars

(* A start of a path that is patched, when the table has a client that was *)
(* made for a URI on its first use and has taken calls.                    *)
C28_Witness ==
    /\ last.name = "start"
    /\ last.out.kind = "raise" /\ last.out.exc = "ValueError"
    /\ LastPath \in obj.patchers
    /\ HasTable(obj)
    /\ \E uri \in DOMAIN TableOf(obj) :
          /\ uri \notin DOMAIN obj.directories
          /\ ClientOf(heap, TableOf(obj)[uri])._recorded_calls_internal # <<>>

----------------------------------------------------------------------------
(* The content that is set for a URI, as the caller gave it: its own, or   *)
(* the default.  A store has a content when it has an entry for each of    *)
(* its dns, the same, and for no other.                                    *)
ContentFor(m, uri) ==
    IF uri = URI_DEFAULT \/ uri \notin DOMAIN m.directories THEN RegDefault ELSE RegOwn
SameContent(store, directory) ==
    /\ \A dn \in DOMAIN directory : StoreHas(store, dn) /\ StoreEntry(store, dn) = directory[dn]
    /\ \A k \in cidict_keys(store) : \E dn \in DOMAIN directory : lower(dn) = lower(k)
InitializeRecord(uri) == <<"initialize", <<PyStr(uri)>>, <<>>>>
OneClientEach(m) ==
    \A u1, u2 \in DOMAIN TableOf(m) : TableOf(m)[u1] = TableOf(m)[u2] => u1 = u2

(* C29: while a path is patched, a lookup or a connect for a URI that the  *)
(* table has returns the client the table has for it; for a URI it has     *)
(* not, a client is made from the default content, is no client of another *)
(* URI and is put in the table, or KeyError is raised when no default      *)
(* content is set, and nothing changes.  A connect adds an initialize      *)
(* record to the calls of the client it returns, and changes no other.     *)
(* The table that a start makes has one client for each URI that content   *)
(* is set for, made from that content.                                     *)
C29_Connect ==
    [][/\ (last'.name \in {"initialize", "__getitem__"} /\ obj.patchers # {})
            => LET uri == LastUri'
                   had == uri \in DOMAIN TableOf(obj)
                   calls == IF had THEN ClientOf(heap, TableOf(obj)[uri])._recorded_calls_internal
                            ELSE <<>>
                   record == IF last'.name = "initialize" THEN <<InitializeRecord(uri)>> ELSE <<>>
               IN  /\ obj'.patchers = obj.patchers /\ obj'.directories = obj.directories
                   /\ HasTable(obj')
                   /\ OneClientEach(obj')
                   /\ IF had
                      THEN last'.out = Return(TableOf(obj)[uri]) /\ obj' = obj
                      ELSE IF URI_DEFAULT \in DOMAIN obj.directories
                      THEN /\ last'.out.kind = "return"
                           /\ TableOf(obj') = dict_setitem(TableOf(obj), uri, last'.out.value)
                           /\ SameContent(ClientOf(heap', last'.out.value).directory, RegDefault)
                      ELSE /\ last'.out.kind = "raise" /\ last'.out.exc = "KeyError"
                           /\ obj' = obj /\ heap' = heap
                   /\ last'.out.kind = "return"
                         => ClientOf(heap', last'.out.value)._recorded_calls_internal
                               = calls \o record
                   /\ \A u \in DOMAIN TableOf(obj) \ {uri} :
                         ClientOf(heap', TableOf(obj)[u]) = ClientOf(heap, TableOf(obj)[u])
       /\ (last'.name = "start" /\ ~HasTable(obj) /\ HasTable(obj'))
            => /\ DOMAIN TableOf(obj') = DOMAIN obj.directories
               /\ OneClientEach(obj')
               /\ \A u \in DOMAIN TableOf(obj') :
                     SameContent(ClientOf(heap', TableOf(obj')[u]).directory, ContentFor(obj, u))
      ]_vars

(* A second connect for a URI with content of its own, when the table has  *)
(* a client of the default content for another URI as well.                *)
C29_Witness ==
    /\ last.name = "initialize" /\ last.out.kind = "return"
    /\ LastUri = uri_a /\ uri_a \in DOMAIN obj.directories
    /\ HasTable(obj) /\ {uri_a, uri_b} \subseteq DOMAIN TableOf(obj)
    /\ ClientOf(heap, TableOf(obj)[uri_a])._recorded_calls_internal
          = <<InitializeRecord(uri_a), InitializeRecord(uri_a)>>
    /\ SameContent(ClientOf(heap, TableOf(obj)[uri_a]).directory, RegOwn)
    /\ SameContent(ClientOf(heap, TableOf(obj)[uri_b]).directory, RegDefault)

----------------------------------------------------------------------------
(* A client as it is made from a content: the store has the content, no    *)
(* call is recorded but those given, nothing is seeded and it is not bound *)
IsFreshClient(o, directory, calls) ==
    /\ SameContent(o.directory, directory)
    /\ o._recorded_calls_internal = calls
    /\ \A name \in RecordedMethods : o._seeded_calls_internal[name] = <<>>
    /\ o.bound_as = None

(* C30: when a start patches the first path, after a time with none, every *)
(* client of the table is as made from the content set for its URI,        *)
(* whatever was written to clients before, and so is a client that a       *)
(* lookup or a connect makes later, but for the initialize record of the   *)
(* connect.                                                                *)
C30_FreshOnActivation ==
    [][/\ (last'.name = "start" /\ obj.patchers = {} /\ obj'.patchers # {})
            => \A u \in DOMAIN TableOf(obj') :
                  IsFreshClient(ClientOf(heap', TableOf(obj')[u]), ContentFor(obj, u), <<>>)
       /\ (/\ last'.name \in {"initialize", "__getitem__"} /\ last'.out.kind = "return"
           /\ LastUri' \notin DOMAIN TableOf(obj))
            => IsFreshClient(ClientOf(heap', last'.out.value), RegDefault,
                             IF last'.name = "initialize"
                             THEN <<InitializeRecord(LastUri')>> ELSE <<>>)
      ]_vars

----------------------------------------------------------------------------
(* C33: a call record never changes once it is appended: whatever the      *)
(* caller does next, a change of a list it passed as an argument included, *)
(* the call log with arguments reports every call it had as before and     *)
(* loses none.                                                             *)
C33_RecordsImmutable ==
    [][/\ Len(obj'._recorded_calls_internal) >= Len(obj._recorded_calls_internal)
       /\ \A i \in 1..Len(obj._recorded_calls_internal) :
             methods_called_with_args(obj', heap')[i] = methods_called_with_args(obj, heap)[i]
      ]_vars

----------------------------------------------------------------------------
(* C31: a call or a seed on the client of one URI leaves the content the   *)
(* MockLdap holds as it was, and leaves every client of another URI as it  *)
(* was: its store, its call log and its seeds.                             *)
C31_Independent ==
    [][last'.name \in {"add_s", "modify_s", "rename_s", "delete_s", "seed"}
          => /\ obj'.directories = obj.directories
             /\ TableOf(obj') = TableOf(obj)
             /\ \A u \in DOMAIN TableOf(obj) :
                   u # last'.sig
                      => ClientOf(heap', TableOf(obj)[u]) = ClientOf(heap, TableOf(obj)[u])
      ]_vars

(* The two clients, both made from the default content: the one of URI a   *)
(* has been written to and seeded, and has another store, log and seeds    *)
(* than the one of URI b, which is as it was made.                         *)
C31_Witness ==
    /\ HasTable(obj) /\ {uri_a, uri_b} \subseteq DOMAIN TableOf(obj)
    /\ last.name = "modify_s" /\ last.sig = uri_a /\ last.out.kind = "return"
    /\ LET ca == ClientOf(heap, TableOf(obj)[uri_a])
           cb == ClientOf(heap, TableOf(obj)[uri_b])
       IN  /\ ~SameContent(ca.directory, RegDefault)
           /\ ca._seeded_calls_internal["delete_s"] # <<>>
           /\ Len(ca._recorded_calls_internal) = 3
           /\ IsFreshClient(cb, RegDefault, <<InitializeRecord(uri_b)>>)
    /\ SameContent(obj.directories[URI_DEFAULT], RegDefault)

----------------------------------------------------------------------------
(* C32: the store never has two entries whose dns are equal but for the    *)
(* letter case, and every key it has reaches an entry; an add_s of a dn    *)
(* that is, but for the letter case, the dn of an entry raises             *)
(* ALREADY_EXISTS and leaves the store as it was; and a compare_s by the   *)
(* dn of an entry in any letter case answers from that entry.              *)
C32_Unique ==
    /\ \A k1, k2 \in cidict_keys(obj.directory) : lower(k1) = lower(k2) => k1 = k2
    /\ DOMAIN obj.directory.data = {lower(k) : k \in cidict_keys(obj.directory)}
    /\ \A k \in 1..Len(invoked) :
          /\ (IsAdd(k) /\ StoreHas(StoreBefore(k), DnOf(k)))
                => /\ trace[k].out.kind = "raise" /\ trace[k].out.exc = "ALREADY_EXISTS"
                   /\ StoreAfter(k) = StoreBefore(k)
          /\ (invoked[k][1] = "compare_s" /\ StoreHas(StoreBefore(k), DnOf(k)))
                => trace[k].out =
                     Return(PyInt(IF InSeq(val_a, StoreEntry(StoreBefore(k), DnOf(k))[attr_cn])
                                  THEN 1 ELSE 0))

(* After a rename to a name in capitals and an add_s, the store has the    *)
(* entry under the name as the rename wrote it, an add_s of that dn in     *)
(* small letters was refused, and a compare_s by the dn in a third         *)
(* spelling found the entry.                                               *)
C32_Witness ==
    /\ Len(invoked) = 3
    /\ invoked[1][1] = "rename_s" /\ trace[1].out.kind = "return"
    /\ IsAdd(2) /\ DnOf(2) = dn_bob /\ trace[2].out.kind = "raise"
    /\ invoked[3][1] = "compare_s" /\ DnOf(3) = dn_BOB /\ trace[3].out = Return(PyInt(1))
    /\ \E k \in cidict_keys(obj.directory) : k # dn_bob /\ k # dn_BOB /\ lower(k) = dn_bob

----------------------------------------------------------------------------
----------------------------------------------------------------------------
(* An unseeded get_option that succeeded in this step *)
GotOption ==
    /\ invoked' # invoked
    /\ last'.name = "get_option"
    /\ last'.ran
    /\ last'.out.kind = "return"

(* The object the implementation of get_option returns in this step *)
StoredOption == obj.options[last'.args[1]]

(* C35 as stated: when no seed matches and the implementation succeeds,    *)
(* the caller gets the implementation's result itself and no copy of it:   *)
(* get_option hands out the very object that is kept for the option.       *)
C35_Verbatim == [][GotOption => last'.out.value = StoredOption]_vars

(* C35 as the code has it: when no seed matches and the implementation     *)
(* succeeds, the caller gets a full copy of the implementation's result:   *)
(* it is equal to the result in value, and where the result is a list it   *)
(* is a new list, which neither the caller nor the client held before, and *)
(* the option still is the object it was.                                  *)
C35_Copy ==
    [][GotOption =>
          /\ Resolve(last'.out.value, heap') = Resolve(StoredOption, heap)
          /\ obj'.options = obj.options
          /\ StoredOption.t = "ref" =>
                /\ last'.out.value.t = "ref"
                /\ last'.out.value # StoredOption
                /\ last'.out.value.v \notin held
                /\ heap[last'.out.value.v] = Free]_vars

(* get_option has returned a copy of a list option, and the caller has     *)
(* changed the copy, which left the list of the option as it was.          *)
C35_Witness ==
    /\ last.name = "get_option"
    /\ last.ran
    /\ last.out.kind = "return"
    /\ last.out.value.t = "ref"
    /\ last.out.value # obj.options[last.args[1]]
    /\ Resolve(last.out.value, heap) # last.seen
    /\ Resolve(obj.options[last.args[1]], heap) = last.seen

----------------------------------------------------------------------------
(* Whether a filter has a test with an escaped character in its value *)
RECURSIVE HasEscape(_)
HasEscape(f) ==
    IF f.code = "TEST" THEN unescape(TestValue(f.content)) # TestValue(f.content)
    ELSE \E i \in 1..Len(f.terms) : HasEscape(f.terms[i])

(* C36: for every text the parser accepts, the text that unparse gives of  *)
(* its tree is accepted as well, and the tree of that text has the truth   *)
(* value of the first tree on the entry.                                   *)
C36_RoundTrip ==
    /\ last.stage \in {"reparsed", "evaluated"} => last.second.kind = "return"
    /\ last.stage = "evaluated" => last.matches[1] = last.matches[2]

(* Both trees of a composite filter that has a composite with an escaped   *)
(* value in it were evaluated on an entry that passes it.                  *)
C36_Witness ==
    /\ last.stage = "evaluated"
    /\ last.first.value.code = "AND"
    /\ last.first.value.terms[1].code = "NOT"
    /\ HasEscape(last.first.value)
    /\ last.matches = <<TRUE, TRUE>>

----------------------------------------------------------------------------
(* A modify_s of an entry of the store has raised in this step *)
ModifyFailed ==
    /\ invoked' # invoked
    /\ last'.name = "modify_s"
    /\ last'.ran
    /\ last'.out.kind = "raise"
    /\ cidict_has_key(obj.directory, last'.args[1].v)

(* What modify_s of the modifications alone makes of the entry of the step *)
ModifiedBy(o, mod_attrs) == _modify_s(o, last'.args[1].v, mod_attrs)

(* C37: a modify_s that raises has a modification at which it does: the    *)
(* store is left as the modifications before that one leave it, which go   *)
(* through when given alone, that one raises on what they leave, and       *)
(* nothing of those after it is in the store.                              *)
C37_InOrder ==
    [][ModifyFailed =>
          \E j \in 1..Len(last'.args[2].v) :
              LET before == ModifiedBy(obj, SubSeq(last'.args[2].v, 1, j - 1))
              IN  /\ before.out.kind = "return"
                  /\ ModifiedBy(before.obj, <<last'.args[2].v[j]>>).out.kind = "raise"
                  /\ obj'.directory.data = before.obj.directory.data]_vars

(* A modify_s of a replacement of cn, an addition and a replacement of sn  *)
(* has raised: cn is replaced and sn is not.                               *)
C37_Witness ==
    /\ last.name = "modify_s"
    /\ last.out.kind = "raise"
    /\ Len(last.args[2].v) = 3
    /\ last.args[2].v[2][1] = MOD_ADD
    /\ cidict_getitem(obj.directory, dn_alice)[attr_cn] = <<val_e>>
    /\ cidict_getitem(obj.directory, dn_alice)[attr_sn] # <<val_a>>
    /\ trace[Len(trace)].before.data[lower(dn_alice)][attr_cn] # <<val_e>>

----------------------------------------------------------------------------
(* Call k is a write that is to be rejected: a delete_s, modify_s or       *)
(* rename_s of a dn the store has no entry for, or an add_s of a dn it has *)
(* an entry for.                                                           *)
RejectedWrite(k) ==
    \/ /\ invoked[k][1] \in {"delete_s", "modify_s", "rename_s"}
       /\ ~StoreHas(StoreBefore(k), DnOf(k))
    \/ /\ invoked[k][1] = "add_s"
       /\ StoreHas(StoreBefore(k), DnOf(k))

(* C38: a write that is to be rejected raises NO_SUCH_OBJECT, or           *)
(* ALREADY_EXISTS if it is an add_s, leaves the store with the entries and *)
(* the attributes it had, and is recorded in the call log.                 *)
C38_RejectedWrite ==
    \A k \in 1..Len(invoked) :
        RejectedWrite(k) =>
            /\ trace[k].out.kind = "raise"
            /\ trace[k].out.exc = IF invoked[k][1] = "add_s" THEN "ALREADY_EXISTS"
                                  ELSE "NO_SUCH_OBJECT"
            /\ StoreAfter(k) = StoreBefore(k)
            /\ CalledAfter(k) = Append(CalledBefore(k), invoked[k][1])

----------------------------------------------------------------------------
(* The call of this step is one the caller has registered a seed for *)
SeededCall ==
    /\ invoked' # invoked
    /\ \E i \in 1..Len(seeded) :
          seeded[i].name = last'.name /\ seeded[i].sig = last'.sig

(* C39: a call that a seed answers does not run the implementation, and    *)
(* leaves every attribute of the client as it was but the call log, which  *)
(* gets the one record of the call: the store, the bound identity, the TLS *)
(* flag, the options and the results that wait to be fetched.              *)
C39_SeededFrame ==
    [][SeededCall =>
          /\ ~last'.ran
          /\ \A f \in DOMAIN obj \ {"_recorded_calls_internal"} : obj'[f] = obj[f]
          /\ obj'.directory = obj.directory
          /\ obj'.bound_as = obj.bound_as
          /\ obj'.tls_enabled = obj.tls_enabled
          /\ obj'.async_results = obj.async_results
          /\ obj'._recorded_calls_internal =
                Append(obj._recorded_calls_internal, <<last'.name, last'.args, last'.kwargs>>)]_vars

(* TLS was started without a seed, which set the flag, and then a delete_s *)
(* of an entry was answered from a seed: the entry is still there.         *)
C39_Witness ==
    /\ Len(invoked) = 2
    /\ invoked[1][1] = "start_tls_s"
    /\ obj.tls_enabled
    /\ last.name = "delete_s"
    /\ ~last.ran
    /\ last.out.kind = "return"
    /\ cidict_has_key(obj.directory, dn_alice)

----------------------------------------------------------------------------
(* C40: no step of a caller that only reads changes the store: not a       *)
(* search_s in any scope, with any filter, list of attributes and          *)
(* attributes-only flag, not a search or a result, a compare_s or a        *)
(* simple_bind_s, whether they return or raise, not asking for the call    *)
(* log, and not a change the caller makes to a result it was given.        *)
C40_ReadOnly == [][obj'.directory = obj.directory]_vars

(* A search_s with a list of attributes and the attributes-only flag has   *)
(* returned an entry with an empty list for cn, the caller has changed     *)
(* that list, and the entry of the store has cn and its password as when   *)
(* the client was made.                                                    *)
C40_Witness ==
    /\ last.name = "search_s"
    /\ last.out.kind = "return"
    /\ Param(last.args, last.kwargs, 5, "attrsonly", PyInt(0)).v = 1
    /\ last.seen.v # <<>>
    /\ last.seen.v[1][2] = [a \in {attr_cn} |-> <<val_e>>]
    /\ last.out.value.v[1][2] = [a \in {attr_cn} |-> <<>>]
    /\ cidict_getitem(obj.directory, last.seen.v[1][1]) = DnEntry
    /\ obj.directory = LDAPObject(DnDirectory).directory

====
